---- MODULE Spec2Model ----
(***************************************************************************)
(* A model of the geometry / holder / geometry-list core of the hkl        *)
(* diffractometer library (hkl/hkl-geometry.c and the engines that use it).*)
(*                                                                         *)
(* Numbers.  Axis values are doubles in the program; here they are         *)
(* integers on a grid whose unit is HKL_EPSILON / 2, so that a difference  *)
(* can be smaller than, equal to or larger than HKL_EPSILON.  A full turn  *)
(* (2*M_PI) is 16 grid units, so a quarter turn is exact.  NaN is a value  *)
(* outside every range.                                                    *)
(*                                                                         *)
(* Memory.  Geometries live in a heap (geoms) and own their axes, which    *)
(* live in a second heap (params) and are referred to by reference, as     *)
(* the HklParameter pointers of geometry->axes are.  Holder configurations *)
(* (configs) are shared, reference counted objects.                        *)
(***************************************************************************)
EXTENDS Integers, Sequences, FiniteSets, TLC

VARIABLES
    params,   \* heap of HklParameter      : parameter reference -> record
    geoms,    \* heap of HklGeometry       : geometry id -> record
    configs,  \* heap of HklHolderConfig   : config id -> [gc, idx]
    list,     \* the HklGeometryList       : [items, n_items, multiply]
    engine,   \* the pseudo-axis engine    : [q, initialized]
    hist,     \* history of the list since its last reset
    last      \* the last call made and what it returned

vars == <<params, geoms, configs, list, engine, hist, last>>

(***************************************************************************)
(* Program constants on the grid                                           *)
(***************************************************************************)
HKL_EPSILON == 2
M_PI == 8
TwoPi == 2 * M_PI
DBL_MAX == 1000 * M_PI
NaN == 0 - (2000 * M_PI)
NULL == 0

gsl_isnan(x) == x = NaN
fabs(x) == IF x < 0 THEN 0 - x ELSE x

\* floor(a / b) for b > 0 and any integer a
FloorDiv(a, b) == IF a >= 0 THEN a \div b ELSE 0 - ((0 - a + b - 1) \div b)

\* gsl_sf_angle_restrict_symm: the angle brought into [-pi, pi], the sign of
\* a value that is pi modulo 2*pi kept (both -pi and pi are results).
gsl_sf_angle_restrict_symm(theta) ==
    LET sgn == IF theta < 0 THEN 0 - 1 ELSE 1
        r == theta - sgn * TwoPi * (fabs(theta) \div TwoPi)
    IN  IF r > M_PI THEN r - TwoPi
        ELSE IF r < 0 - M_PI THEN r + TwoPi
        ELSE r

\* gsl_sf_angle_restrict_pos: the angle brought into [0, 2*pi)
gsl_sf_angle_restrict_pos(theta) == theta - TwoPi * FloorDiv(theta, TwoPi)

(***************************************************************************)
(* HklParameter                                                            *)
(***************************************************************************)
hkl_parameter_new_rotation_with_origin(name, axis_v, origin) ==
    [name |-> name, kind |-> "rotation", axis_v |-> axis_v, origin |-> origin,
     value |-> 0, min |-> 0 - M_PI, max |-> M_PI, changed |-> TRUE]

hkl_parameter_new_rotation(name, axis_v) ==
    hkl_parameter_new_rotation_with_origin(name, axis_v, <<0, 0, 0>>)

hkl_parameter_new_translation(name, axis_v) ==
    [name |-> name, kind |-> "translation", axis_v |-> axis_v,
     origin |-> <<0, 0, 0>>,
     value |-> 0, min |-> 0 - DBL_MAX, max |-> DBL_MAX, changed |-> TRUE]

\* the plain parameter hkl_holder_add_parameter builds on its stack
hkl_parameter_new_plain(name) ==
    [name |-> name, kind |-> "parameter", axis_v |-> <<0, 0, 0>>,
     origin |-> <<0, 0, 0>>,
     value |-> 0, min |-> 0 - DBL_MAX, max |-> DBL_MAX, changed |-> TRUE]

\* 0 iff the two parameters carry the same transformation
hkl_parameter_transformation_cmp(p1, p2) ==
    IF p1.kind = p2.kind /\ p1.axis_v = p2.axis_v /\ p1.origin = p2.origin
    THEN 0 ELSE 1

\* the result is [ok, p]: NaN is refused, a translation outside its range too
hkl_parameter_value_set(p, value) ==
    IF gsl_isnan(value) THEN [ok |-> FALSE, p |-> p]
    ELSE IF p.kind = "translation" /\ (value < p.min \/ value > p.max)
    THEN [ok |-> FALSE, p |-> p]
    ELSE [ok |-> TRUE, p |-> [p EXCEPT !.value = value, !.changed = TRUE]]

hkl_parameter_is_permutable(p) ==
    p.kind = "rotation" /\ p.max - p.min > TwoPi

\* a lift into (max - 2*pi, max] instead
hkl_parameter_value_set_smallest_in_range_top(p) ==
    IF p.kind = "rotation"
    THEN hkl_parameter_value_set(
             p, p.value + TwoPi * FloorDiv(p.max - p.value, TwoPi)).p
    ELSE p

\* a rotation is lifted into [min, min + 2*pi)
hkl_parameter_value_set_smallest_in_range(p) ==
    IF p.kind = "rotation"
    THEN hkl_parameter_value_set(
             p, p.value - TwoPi * FloorDiv(p.value - p.min, TwoPi)).p
    ELSE p

hkl_parameter_is_valid_range(p) == p.min <= p.value /\ p.value <= p.max

\* shortest arc between the parameter's value and `value` (rotations);
\* plain difference for the other kinds
hkl_parameter_orthodromic_distance_get(p, value) ==
    IF p.kind = "rotation"
    THEN LET d == fabs(gsl_sf_angle_restrict_symm(value)
                       - gsl_sf_angle_restrict_symm(p.value))
         IN  IF d > M_PI THEN TwoPi - d ELSE d
    ELSE fabs(value - p.value)

\* the 2*pi-equivalent values of a rotation that lie inside its range
Representatives(p) ==
    {p.value + TwoPi * k : k \in FloorDiv(p.min - p.value, TwoPi) ..
                                 FloorDiv(p.max - p.value, TwoPi) + 1}
        \cap (p.min .. p.max)

\* the smallest representative, whatever the reference
hkl_parameter_value_get_closest_smallest(p, ref) ==
    IF p.kind # "rotation" THEN p.value
    ELSE IF Representatives(p) = {} THEN NaN
    ELSE CHOOSE v \in Representatives(p) : \A w \in Representatives(p) : v <= w

\* the representative nearest to ref's value (the smallest one on a tie),
\* NaN when the range holds none
hkl_parameter_value_get_closest(p, ref) ==
    IF p.kind # "rotation" THEN p.value
    ELSE IF Representatives(p) = {} THEN NaN
    ELSE CHOOSE v \in Representatives(p) :
            \A w \in Representatives(p) :
                \/ fabs(v - ref.value) < fabs(w - ref.value)
                \/ (fabs(v - ref.value) = fabs(w - ref.value) /\ v <= w)

\* A quaternion is kept symbolic: the sequence of its factors <<axis_v, angle>>,
\* the empty sequence being both the identity q0 and "no quaternion" (NULL).
hkl_parameter_quaternion_get(p) ==
    IF p.kind = "rotation" THEN << <<p.axis_v, p.value>> >> ELSE << >>

hkl_quaternion_times_quaternion(q, q1) == q \o q1

hkl_parameter_new_copy(p) == p

(***************************************************************************)
(* The heap.  H is the record [params, geoms, configs] the operators below *)
(* take and return; the actions read it from, and write it to, the         *)
(* variables of the same names.                                            *)
(***************************************************************************)
Heap == [params |-> params, geoms |-> geoms, configs |-> configs]

\* the smallest free address, as a stand-in for what malloc returns
NewId(used) ==
    CHOOSE i \in 1..(Cardinality(used) + 1) :
        /\ i \notin used
        /\ \A j \in 1..(Cardinality(used) + 1) : j \notin used => i <= j

Without(f, keys) == [k \in DOMAIN f \ keys |-> f[k]]

Range(s) == {s[i] : i \in DOMAIN s}

\* darray_item(geometry->axes, i), i counted from 0 as in the program
darray_item_axes(H, g, i) == H.params[H.geoms[g].axes[i + 1]]

darray_size_axes(H, g) == Len(H.geoms[g].axes)

\* the axes of a geometry, as the sequence of their records / values
AxesOf(H, g) == [i \in 1..Len(H.geoms[g].axes) |-> H.params[H.geoms[g].axes[i]]]

ValuesOf(H, g) == [i \in 1..Len(H.geoms[g].axes) |-> H.params[H.geoms[g].axes[i]].value]

(***************************************************************************)
(* HklHolderConfig, HklHolder                                              *)
(***************************************************************************)
hkl_holder_config_new == [gc |-> 1, idx |-> << >>]

hkl_holder_config_ref(C, c) == [C EXCEPT ![c].gc = @ + 1]

\* an unref that counts down and never frees
hkl_holder_config_unref_keep(C, c) == [C EXCEPT ![c].gc = @ - 1]

\* the configuration is freed when its counter reaches 0
hkl_holder_config_unref(C, c) ==
    IF C[c].gc - 1 # 0 THEN [C EXCEPT ![c].gc = @ - 1] ELSE Without(C, {c})

\* the product, in the order of the holder's list, of the quaternions of its
\* axes; an axis that carries none is skipped (`continue`)
RECURSIVE HolderProduct(_, _, _, _)
HolderProduct(H, g, idx, i) ==
    IF i > Len(idx) THEN << >>
    ELSE LET q == hkl_parameter_quaternion_get(darray_item_axes(H, g, idx[i]))
         IN  IF q = << >> THEN HolderProduct(H, g, idx, i + 1)
             ELSE hkl_quaternion_times_quaternion(q, HolderProduct(H, g, idx, i + 1))

hkl_holder_update(H, g, holder) ==
    [holder EXCEPT !.q = HolderProduct(H, g, H.configs[holder.config].idx, 1)]

(***************************************************************************)
(* HklGeometry                                                             *)
(***************************************************************************)
\* hkl_geometry_new: no axis, no holder, wavelength 1.54 (not on the grid:
\* the wavelength is kept as a number of hundredths)
hkl_geometry_new(H) ==
    LET g == NewId(DOMAIN H.geoms)
    IN  [H EXCEPT !.geoms = @ @@ (g :> [axes |-> << >>, holders |-> << >>,
                                        wave_length |-> 154])]

\* a copy that takes over its source's parameters instead of copying them
hkl_geometry_new_copy_shallow(H, src) ==
    LET g == NewId(DOMAIN H.geoms)
        hs == H.geoms[src].holders
    IN  [params |-> H.params,
         geoms |-> H.geoms @@ (g :> H.geoms[src]),
         configs |-> [c \in DOMAIN H.configs |->
                        [H.configs[c] EXCEPT !.gc =
                            @ + Cardinality({j \in 1..Len(hs) : hs[j].config = c})]]]

\* the copy has parameters and holders of its own; each holder of the copy
\* shares its source's configuration and counts as one more user of it
hkl_geometry_new_copy(H, src) ==
    LET g == NewId(DOMAIN H.geoms)
        n == Len(H.geoms[src].axes)
        hs == H.geoms[src].holders
    IN  [params |-> H.params @@
                    [r \in {<<g, i>> : i \in 1..n} |->
                        hkl_parameter_new_copy(H.params[H.geoms[src].axes[r[2]]])],
         geoms |-> H.geoms @@
                   (g :> [H.geoms[src] EXCEPT
                            !.axes = [i \in 1..n |-> <<g, i>>],
                            !.holders = [j \in 1..Len(hs) |->
                                [config |-> hs[j].config, q |-> hs[j].q]]]),
         configs |-> [c \in DOMAIN H.configs |->
                        [H.configs[c] EXCEPT !.gc =
                            @ + Cardinality({j \in 1..Len(hs) : hs[j].config = c})]]]

RECURSIVE UnrefAll(_, _, _)
UnrefAll(C, hs, j) ==
    IF j > Len(hs) THEN C
    ELSE UnrefAll(hkl_holder_config_unref(C, hs[j].config), hs, j + 1)

hkl_geometry_free(H, g) ==
    [params |-> Without(H.params, Range(H.geoms[g].axes)),
     geoms |-> Without(H.geoms, {g}),
     configs |-> UnrefAll(H.configs, H.geoms[g].holders, 1)]

\* recompute every holder if at least one axis changed, then clear the flags
\* an update that recomputes the holders and leaves the flags as they were
hkl_geometry_update_keepflags(H, g) ==
    IF \E i \in 1..Len(H.geoms[g].axes) : H.params[H.geoms[g].axes[i]].changed
    THEN [H EXCEPT
            !.geoms[g].holders =
                [j \in 1..Len(@) |-> hkl_holder_update(H, g, @[j])]]
    ELSE H

hkl_geometry_update(H, g) ==
    IF \E i \in 1..Len(H.geoms[g].axes) : H.params[H.geoms[g].axes[i]].changed
    THEN [H EXCEPT
            !.geoms[g].holders =
                [j \in 1..Len(@) |-> hkl_holder_update(H, g, @[j])],
            !.params = [r \in DOMAIN @ |->
                IF r \in Range(H.geoms[g].axes)
                THEN [@[r] EXCEPT !.changed = FALSE] ELSE @[r]]]
    ELSE H

RECURSIVE SumTo(_, _)
SumTo(f, n) == IF n = 0 THEN 0 ELSE f[n] + SumTo(f, n - 1)

\* sum over the axes of |value2 - value1|
hkl_geometry_distance(H, self, ref) ==
    SumTo([i \in 1..darray_size_axes(H, self) |->
              fabs(darray_item_axes(H, ref, i - 1).value
                   - darray_item_axes(H, self, i - 1).value)],
          darray_size_axes(H, self))

\* the orthodromic distance of the first axis alone
hkl_geometry_distance_orthodromic_first(H, self, ref) ==
    hkl_parameter_orthodromic_distance_get(
        darray_item_axes(H, self, 0), darray_item_axes(H, ref, 0).value)

hkl_geometry_distance_orthodromic(H, self, ref) ==
    SumTo([i \in 1..darray_size_axes(H, self) |->
              hkl_parameter_orthodromic_distance_get(
                  darray_item_axes(H, self, i - 1),
                  darray_item_axes(H, ref, i - 1).value)],
          darray_size_axes(H, self))

\* a rotation is valid when a value equal to its own modulo 2*pi lies in its
\* range, another parameter when its value does
hkl_parameter_is_valid(p) ==
    IF p.kind = "rotation" THEN Representatives(p) # {}
    ELSE p.min <= p.value /\ p.value <= p.max

\* a check that stops after the first axis
hkl_geometry_is_valid_first(H, g) ==
    \A i \in 1..darray_size_axes(H, g) :
        i = 1 => hkl_parameter_is_valid(darray_item_axes(H, g, i - 1))

hkl_geometry_is_valid(H, g) ==
    \A i \in 1..darray_size_axes(H, g) :
        hkl_parameter_is_valid(darray_item_axes(H, g, i - 1))

hkl_geometry_is_valid_range(H, g) ==
    \A i \in 1..darray_size_axes(H, g) :
        hkl_parameter_is_valid_range(darray_item_axes(H, g, i - 1))

(***************************************************************************)
(* Building a geometry: holders and axes                                   *)
(***************************************************************************)
\* a new holder with a configuration of its own and the identity quaternion
hkl_geometry_add_holder(H, g) ==
    LET c == NewId(DOMAIN H.configs)
    IN  [H EXCEPT !.configs = @ @@ (c :> hkl_holder_config_new),
                  !.geoms[g].holders = Append(@, [config |-> c, q |-> << >>])]

\* an add_axis that does not look for the name: the axis is always appended
hkl_geometry_add_axis_append(H, g, axis) ==
    LET ref == <<g, darray_size_axes(H, g) + 1>>
    IN  [H |-> [H EXCEPT !.params = @ @@ (ref :> hkl_parameter_new_copy(axis)),
                         !.geoms[g].axes = Append(@, ref)],
         idx |-> darray_size_axes(H, g), exit |-> 0]

\* an add_axis that takes the axis of that name whatever its transformation
hkl_geometry_add_axis_reuse(H, g, axis) ==
    LET axes == AxesOf(H, g)
        same == {i \in 1..Len(axes) : axes[i].name = axis.name}
        first == CHOOSE i \in same : \A j \in same : i <= j
        ref == <<g, Len(axes) + 1>>
    IN  IF same # {}
        THEN [H |-> H, idx |-> first - 1, exit |-> 0]
        ELSE [H |-> [H EXCEPT
                        !.params = @ @@ (ref :> hkl_parameter_new_copy(axis)),
                        !.geoms[g].axes = Append(@, ref)],
              idx |-> Len(axes), exit |-> 0]

\* The index (from 0) of the axis of that name if its transformation is the
\* same; exit(128) if it is not; else a copy of `axis` is appended.
\* The result is [H, idx, exit].
hkl_geometry_add_axis(H, g, axis) ==
    LET axes == AxesOf(H, g)
        same == {i \in 1..Len(axes) : axes[i].name = axis.name}
        first == CHOOSE i \in same : \A j \in same : i <= j
        ref == <<g, Len(axes) + 1>>
    IN  IF same # {}
        THEN IF hkl_parameter_transformation_cmp(axes[first], axis) # 0
             THEN [H |-> H, idx |-> first - 1, exit |-> 128]
             ELSE [H |-> H, idx |-> first - 1, exit |-> 0]
        ELSE [H |-> [H EXCEPT
                        !.params = @ @@ (ref :> hkl_parameter_new_copy(axis)),
                        !.geoms[g].axes = Append(@, ref)],
              idx |-> Len(axes), exit |-> 0]

\* h is the position (from 1) of the holder in geometry->holders.  The
\* result is [H, res]: res is FALSE (NULL) when the holder lists idx already.
hkl_holder_add_axis_if_not_present(H, g, h, idx) ==
    LET c == H.geoms[g].holders[h].config
    IN  IF \E i \in 1..Len(H.configs[c].idx) : idx = H.configs[c].idx[i]
        THEN [H |-> H, res |-> FALSE]
        ELSE [H |-> [H EXCEPT !.configs[c].idx = Append(@, idx)],
              res |-> TRUE]

\* the four hkl_holder_add_*: [H, res, exit]
HolderAdd(H, g, h, axis) ==
    LET a == hkl_geometry_add_axis(H, g, axis)
        r == hkl_holder_add_axis_if_not_present(a.H, g, h, a.idx)
    IN  IF a.exit # 0 THEN [H |-> H, res |-> FALSE, exit |-> a.exit, idx |-> a.idx]
        ELSE [H |-> r.H, res |-> r.res, exit |-> 0, idx |-> a.idx]

hkl_holder_add_parameter(H, g, h, name) ==
    HolderAdd(H, g, h, hkl_parameter_new_plain(name))

hkl_holder_add_rotation(H, g, h, name, axis_v) ==
    HolderAdd(H, g, h, hkl_parameter_new_rotation(name, axis_v))

hkl_holder_add_rotation_with_origin(H, g, h, name, axis_v, origin) ==
    HolderAdd(H, g, h, hkl_parameter_new_rotation_with_origin(name, axis_v, origin))

hkl_holder_add_translation(H, g, h, name, axis_v) ==
    HolderAdd(H, g, h, hkl_parameter_new_translation(name, axis_v))

\* hkl_parameter_min_max_set on axis i (from 0) of geometry g
hkl_parameter_min_max_set(H, g, i, min, max) ==
    [H EXCEPT !.params[H.geoms[g].axes[i + 1]].min = min,
              !.params[H.geoms[g].axes[i + 1]].max = max]

EmptyHeap == [params |-> << >>, geoms |-> << >>, configs |-> << >>]

\* the caller's geometry is the first object allocated
TheGeometry == NewId({})

(***************************************************************************)
(* HklGeometryList.  The ccan list of items is kept as the sequence of     *)
(* the items from the head; an item is named by the geometry it owns.      *)
(* The operators take and return the pair [H, L].                          *)
(***************************************************************************)
hkl_geometry_list_new == [items |-> << >>, n_items |-> 0, multiply |-> "NULL"]

\* an item owning a copy of the geometry; the item is the new geometry's id
hkl_geometry_list_item_new(H, geometry) == hkl_geometry_new_copy(H, geometry)

\* a search of p that compares the distances without the tolerance
RECURSIVE SortFindP_exact(_, _, _, _)
SortFindP_exact(distances, idx, x, p) ==
    IF distances[idx[p]] < distances[x]
    THEN SortFindP_exact(distances, idx, x, p + 1)
    ELSE p

\* an add that refuses exact duplicates only
hkl_geometry_list_add_exact(H, L, geometry) ==
    IF \E k \in 1..Len(L.items) :
           hkl_geometry_distance_orthodromic(H, geometry, L.items[k]) = 0
    THEN [H |-> H, L |-> L]
    ELSE [H |-> hkl_geometry_list_item_new(H, geometry),
          L |-> [L EXCEPT !.items = Append(@, NewId(DOMAIN H.geoms)),
                          !.n_items = @ + 1]]

\* an add that links the new item at the head (list_add for list_add_tail)
hkl_geometry_list_add_head(H, L, geometry) ==
    IF \E k \in 1..Len(L.items) :
           hkl_geometry_distance_orthodromic(H, geometry, L.items[k]) < HKL_EPSILON
    THEN [H |-> H, L |-> L]
    ELSE [H |-> hkl_geometry_list_item_new(H, geometry),
          L |-> [L EXCEPT !.items = <<NewId(DOMAIN H.geoms)>> \o @,
                          !.n_items = @ + 1]]

\* nothing is added when an item is closer than epsilon (orthodromic)
hkl_geometry_list_add(H, L, geometry) ==
    IF \E k \in 1..Len(L.items) :
           hkl_geometry_distance_orthodromic(H, geometry, L.items[k]) < HKL_EPSILON
    THEN [H |-> H, L |-> L]
    ELSE [H |-> hkl_geometry_list_item_new(H, geometry),
          L |-> [L EXCEPT !.items = Append(@, NewId(DOMAIN H.geoms)),
                          !.n_items = @ + 1]]

\* list_top / list_next of the ccan list: NULL on an empty list / past the end
hkl_geometry_list_items_first_get(L) ==
    IF L.items = << >> THEN NULL ELSE L.items[1]

hkl_geometry_list_items_next_get(L, item) ==
    LET k == CHOOSE k \in 1..Len(L.items) : L.items[k] = item
    IN  IF k = Len(L.items) THEN NULL ELSE L.items[k + 1]

RECURSIVE FreeAll(_, _, _)
FreeAll(H, items, k) ==
    IF k > Len(items) THEN H
    ELSE FreeAll(hkl_geometry_free(H, items[k]), items, k + 1)

hkl_geometry_list_reset(H, L) ==
    [H |-> FreeAll(H, L.items, 1),
     L |-> [L EXCEPT !.items = << >>, !.n_items = 0]]

\* the smallest p with not (distances[idx[p]] < distances[x] by more than
\* epsilon); the scan stops at the latest on x itself
RECURSIVE SortFindP(_, _, _, _)
SortFindP(distances, idx, x, p) ==
    IF /\ distances[idx[p]] < distances[x]
       /\ fabs(distances[idx[p]] - distances[x]) > HKL_EPSILON
    THEN SortFindP(distances, idx, x, p + 1)
    ELSE p

\* the insertion sort of idx, positions counted from 1
RECURSIVE SortInsert(_, _, _, _)
SortInsert(distances, idx, i, n) ==
    IF i > n THEN idx
    ELSE LET x == idx[i]
             p == SortFindP(distances, idx, x, 1)
         IN  SortInsert(distances,
                        [j \in 1..Len(idx) |->
                            IF j < p \/ j > i THEN idx[j]
                            ELSE IF j = p THEN x
                            ELSE idx[j - 1]],
                        i + 1, n)

hkl_geometry_list_sort(H, L, ref) ==
    LET distances == [i \in 1..Len(L.items) |->
                         hkl_geometry_distance(H, ref, L.items[i])]
        idx == SortInsert(distances, [i \in 1..Len(L.items) |-> i], 2, L.n_items)
    IN  [H |-> H,
         L |-> [L EXCEPT !.items = [i \in 1..L.n_items |-> L.items[idx[i]]]]]

\* every combination of the permutable axes' values value, value + 2*pi, ...
\* up to max + epsilon, in the order perm_r reaches them; axes is the
\* working copy's axes, refv the values of the item being expanded
RECURSIVE perm_r(_, _, _)
RECURSIVE perm_r_loop(_, _, _, _)
perm_r(refv, axes, axis_idx) ==
    IF axis_idx = Len(axes)
    THEN IF SumTo([i \in 1..Len(axes) |-> fabs(refv[i] - axes[i].value)],
                  Len(axes)) > HKL_EPSILON
         THEN <<axes>> ELSE << >>
    ELSE IF hkl_parameter_is_permutable(axes[axis_idx + 1])
         THEN perm_r_loop(refv, axes, axis_idx, axes[axis_idx + 1].value)
         ELSE perm_r(refv, axes, axis_idx + 1)

perm_r_loop(refv, axes, axis_idx, value) ==
    LET out == perm_r(refv, [axes EXCEPT ![axis_idx + 1].value = value],
                      axis_idx + 1)
    IN  IF value + TwoPi <= axes[axis_idx + 1].max + HKL_EPSILON
        THEN out \o perm_r_loop(refv, axes, axis_idx, value + TwoPi)
        ELSE out

\* a new item for each geometry perm_r emits: the working copy (the base
\* item's holders, the emitted axes) copied once more and put at the tail
RECURSIVE AppendItems(_, _, _, _, _)
AppendItems(H, L, base, emitted, k) ==
    IF k > Len(emitted) THEN [H |-> H, L |-> L]
    ELSE LET item == NewId(DOMAIN H.geoms)
             H1 == hkl_geometry_list_item_new(H, base)
             H2 == [H1 EXCEPT !.params =
                       [r \in DOMAIN @ |->
                           IF r \in Range(H1.geoms[item].axes)
                           THEN emitted[k][CHOOSE i \in 1..Len(H1.geoms[item].axes) :
                                               H1.geoms[item].axes[i] = r]
                           ELSE @[r]]]
         IN  AppendItems(H2, [L EXCEPT !.items = Append(@, item),
                                       !.n_items = @ + 1],
                         base, emitted, k + 1)

\* a working copy whose permutable axes stay where they are
WorkingCopy_unlifted(H, item) == AxesOf(H, item)

\* the working copy of an item: its permutable axes lifted to their smallest
\* value in range
WorkingCopy(H, item) ==
    [i \in 1..darray_size_axes(H, item) |->
        IF hkl_parameter_is_permutable(darray_item_axes(H, item, i - 1))
        THEN hkl_parameter_value_set_smallest_in_range(darray_item_axes(H, item, i - 1))
        ELSE darray_item_axes(H, item, i - 1)]

RECURSIVE MultiplyFromRangeLoop(_, _, _, _)
MultiplyFromRangeLoop(H, L, i, len) ==
    IF ~(i <= len /\ i <= Len(L.items)) THEN [H |-> H, L |-> L]
    ELSE LET item == L.items[i]
             r == AppendItems(H, L, item,
                              perm_r(ValuesOf(H, item), WorkingCopy(H, item), 0), 1)
         IN  MultiplyFromRangeLoop(r.H, r.L, i + 1, len)

hkl_geometry_list_multiply_from_range(H, L) ==
    MultiplyFromRangeLoop(H, L, 1, L.n_items)

RECURSIVE RemoveInvalidLoop(_, _, _)
RemoveInvalidLoop(H, L, k) ==
    IF k > Len(L.items) THEN [H |-> H, L |-> L]
    ELSE IF ~hkl_geometry_is_valid_range(H, L.items[k])
         THEN RemoveInvalidLoop(
                  hkl_geometry_free(H, L.items[k]),
                  [L EXCEPT !.items = SubSeq(@, 1, k - 1) \o SubSeq(@, k + 1, Len(@)),
                            !.n_items = @ - 1],
                  k)
         ELSE RemoveInvalidLoop(H, L, k + 1)

\* a cleanup that unlinks the items and leaves n_items as it was
hkl_geometry_list_remove_invalid_keepcount(H, L) ==
    [RemoveInvalidLoop(H, L, 1) EXCEPT !.L.n_items = L.n_items]

hkl_geometry_list_remove_invalid(H, L) == RemoveInvalidLoop(H, L, 1)

(***************************************************************************)
(* Setting the axes of a geometry                                          *)
(***************************************************************************)
\* a loop that goes on after a refusal and reports success
RECURSIVE AxisValuesSetLoop_ignore(_, _, _, _)
AxisValuesSetLoop_ignore(H, g, values, i) ==
    IF i > darray_size_axes(H, g)
    THEN [H |-> hkl_geometry_update(H, g), ret |-> TRUE]
    ELSE AxisValuesSetLoop_ignore(
             [H EXCEPT !.params[H.geoms[g].axes[i]] =
                 hkl_parameter_value_set(darray_item_axes(H, g, i - 1), values[i]).p],
             g, values, i + 1)

\* values are set axis after axis; the first refusal returns FALSE at once,
\* without the update.  The result is [H, ret].
RECURSIVE AxisValuesSetLoop(_, _, _, _)
AxisValuesSetLoop(H, g, values, i) ==
    IF i > darray_size_axes(H, g)
    THEN [H |-> hkl_geometry_update(H, g), ret |-> TRUE]
    ELSE LET r == hkl_parameter_value_set(darray_item_axes(H, g, i - 1), values[i])
         IN  IF ~r.ok THEN [H |-> H, ret |-> FALSE]
             ELSE AxisValuesSetLoop(
                      [H EXCEPT !.params[H.geoms[g].axes[i]] = r.p],
                      g, values, i + 1)

hkl_geometry_axis_values_set(H, g, values) == AxisValuesSetLoop(H, g, values, 1)

\* the closest values of all the axes, up to and including the first NaN
RECURSIVE ClosestValues(_, _, _, _)
ClosestValues(H, self, ref, i) ==
    IF i > darray_size_axes(H, self) THEN << >>
    ELSE LET v == hkl_parameter_value_get_closest(darray_item_axes(H, self, i - 1),
                                                  darray_item_axes(H, ref, i - 1))
         IN  IF gsl_isnan(v) THEN <<v>>
             ELSE <<v>> \o ClosestValues(H, self, ref, i + 1)

\* a closest_from that writes each value as soon as it is known
hkl_geometry_closest_from_geometry_with_range_eager(H, self, ref) ==
    LET values == ClosestValues(H, self, ref, 1)
        ko == \E i \in 1..Len(values) : gsl_isnan(values[i])
        set == [H EXCEPT !.params = [r \in DOMAIN @ |->
                   IF \E i \in 1..Len(values) :
                          H.geoms[self].axes[i] = r /\ ~gsl_isnan(values[i])
                   THEN hkl_parameter_value_set(
                            @[r],
                            values[CHOOSE i \in 1..Len(values) :
                                       H.geoms[self].axes[i] = r]).p
                   ELSE @[r]]]
    IN  IF ~ko THEN [H |-> hkl_geometry_update(set, self), ko |-> FALSE]
        ELSE [H |-> set, ko |-> TRUE]

\* the values are written only once all of them are known; the result is
\* [H, ko], ko being TRUE when an axis has no representative in its range
hkl_geometry_closest_from_geometry_with_range(H, self, ref) ==
    LET values == ClosestValues(H, self, ref, 1)
        ko == \E i \in 1..Len(values) : gsl_isnan(values[i])
        set == [H EXCEPT !.params = [r \in DOMAIN @ |->
                   IF r \in Range(H.geoms[self].axes)
                   THEN hkl_parameter_value_set(
                            @[r],
                            values[CHOOSE i \in 1..Len(values) :
                                       H.geoms[self].axes[i] = r]).p
                   ELSE @[r]]]
    IN  IF ~ko THEN [H |-> hkl_geometry_update(set, self), ko |-> FALSE]
        ELSE [H |-> H, ko |-> TRUE]

(***************************************************************************)
(* The post-set hook of SOLEIL SIXS MED 2+3: the slits axis (the last axis *)
(* of the detector holder) of an item is fitted in place.  What the        *)
(* root finder does is not determined by the state kept here: fit is what  *)
(* it did, [x |-> the last value it tried, ok |-> whether it converged].   *)
(***************************************************************************)
hkl_parameter_value_get(p) == p.value

\* slits_func at x: the axis is set and the geometry updated
slits_func(H, g, slits_id, x) ==
    hkl_geometry_update(
        [H EXCEPT !.params[H.geoms[g].axes[slits_id + 1]] =
                      hkl_parameter_value_set(@, x).p],
        g)

\* on convergence the value is brought into [0, 2*pi) by a direct write
fit_slits_orientation(H, g, slits_id, fit) ==
    LET H1 == slits_func(H, g, slits_id, fit.x)
    IN  IF fit.ok
        THEN [H |-> [H1 EXCEPT !.params[H.geoms[g].axes[slits_id + 1]].value =
                                   gsl_sf_angle_restrict_pos(@)],
              res |-> TRUE]
        ELSE [H |-> H1, res |-> FALSE]

\* a hook that leaves the axis where a fit that failed put it
hkl_geometry_list_multiply_soleil_sixs_med_2_3_norestore(H, item, fit) ==
    LET detector_holder == H.geoms[item].holders[2]
        idx == H.configs[detector_holder.config].idx
    IN  fit_slits_orientation(H, item, idx[Len(idx)], fit).H

hkl_geometry_list_multiply_soleil_sixs_med_2_3(H, item, fit) ==
    LET detector_holder == H.geoms[item].holders[2]
        idx == H.configs[detector_holder.config].idx
        slits_id == idx[Len(idx)]
        slits_position == hkl_parameter_value_get(darray_item_axes(H, item, slits_id))
        r == fit_slits_orientation(H, item, slits_id, fit)
    IN  IF r.res # TRUE
        THEN [r.H EXCEPT !.params[H.geoms[item].axes[slits_id + 1]] =
                             hkl_parameter_value_set(@, slits_position).p]
        ELSE r.H

\* the hook on each of the items present when the call starts; fits[i] is
\* what the root finder does on the i-th of them
RECURSIVE MultiplyLoop(_, _, _, _, _)
MultiplyLoop(H, L, fits, i, len) ==
    IF i > len THEN H
    ELSE MultiplyLoop(
             hkl_geometry_list_multiply_soleil_sixs_med_2_3(H, L.items[i], fits[i]),
             L, fits, i + 1, len)

hkl_geometry_list_multiply(H, L, fits) ==
    IF L.multiply = "NULL" THEN H
    ELSE MultiplyLoop(H, L, fits, 1, L.n_items)

(***************************************************************************)
(* The SOLEIL SIXS MED 2+3 diffractometer and the solution list of its     *)
(* engine list.  The caller's geometry is TheGeometry; the list holds      *)
(* copies of it.                                                           *)
(***************************************************************************)
hkl_geometry_new_soleil_sixs_med_2_3(H) ==
    LET g == NewId(DOMAIN H.geoms)
        H0 == hkl_geometry_add_holder(hkl_geometry_new(H), g)
        H1 == hkl_holder_add_rotation(H0, g, 1, "beta", <<0, 0 - 1, 0>>).H
        H2 == hkl_holder_add_rotation(H1, g, 1, "mu", <<0, 0, 1>>).H
        H3 == hkl_holder_add_rotation(H2, g, 1, "omega", <<0, 0 - 1, 0>>).H
        H4 == hkl_geometry_add_holder(H3, g)
        H5 == hkl_holder_add_rotation(H4, g, 2, "beta", <<0, 0 - 1, 0>>).H
        H6 == hkl_holder_add_rotation(H5, g, 2, "gamma", <<0, 0, 1>>).H
        H7 == hkl_holder_add_rotation(H6, g, 2, "delta", <<0, 0 - 1, 0>>).H
    IN  hkl_holder_add_rotation(H7, g, 2, "eta_a", <<0 - 1, 0, 0>>).H

\* the list of an engine list: hkl_engine_list_new leaves the hook unset,
\* hkl_engine_list_new_soleil_sixs_med_2_3 installs it
hkl_engine_list_new_soleil_sixs_med_2_3 ==
    [hkl_geometry_list_new EXCEPT
        !.multiply = "hkl_geometry_list_multiply_soleil_sixs_med_2_3"]

\* Bounds of the runs
MaxItems == 2
MaxHookItems == 2

\* the range the user gives omega, wider than a turn: [-2*pi - eps/2, 2*pi - eps]
OmegaMin == 0 - (TwoPi + 1)
OmegaMax == TwoPi - HKL_EPSILON

\* the positions the caller moves the diffractometer to: omega and eta_a
\* vary, the other axes stay at 0
OmegaValues == {0, 1, HKL_EPSILON}
EtaValues == {0}
InputValues == {<<0, 0, o, 0, 0, e>> : o \in OmegaValues, e \in EtaValues}

\* what the root finder of the hook may do on one item
FitOutcomes == [x : {1 - TwoPi}, ok : BOOLEAN]

NoEngine == [name |-> "none"]

Store(H) ==
    /\ params' = H.params
    /\ geoms' = H.geoms
    /\ configs' = H.configs

InitHist == [order |-> << >>, sorted |-> FALSE, expanded |-> FALSE, hooked |-> FALSE]

\* the diffractometer as the caller sets it up: omega gets its range
SixsHeap ==
    hkl_parameter_min_max_set(hkl_geometry_new_soleil_sixs_med_2_3(EmptyHeap),
                              TheGeometry, 2, OmegaMin, OmegaMax)

Init ==
    /\ params = SixsHeap.params
    /\ geoms = SixsHeap.geoms
    /\ configs = SixsHeap.configs
    /\ list \in {hkl_geometry_list_new, hkl_engine_list_new_soleil_sixs_med_2_3}
    /\ engine = NoEngine
    /\ hist = InitHist
    /\ last = [op |-> "new", ret |-> TRUE]

\* the caller moves its geometry
SetValuesFrom(inputs) ==
    \E values \in inputs :
        LET r == hkl_geometry_axis_values_set(Heap, TheGeometry, values)
        IN  /\ Store(r.H)
            /\ last' = [op |-> "axis_values_set", ret |-> r.ret]
            /\ UNCHANGED <<list, engine, hist>>

SetValues == SetValuesFrom(InputValues)

\* the caller's geometry is offered to the list (of at most max items)
AddUpTo(max) ==
    LET r == hkl_geometry_list_add(Heap, list, TheGeometry)
        accepted == r.L.n_items > list.n_items
    IN  /\ accepted => list.n_items < max
        /\ Store(r.H)
        /\ list' = r.L
        /\ hist' = [hist EXCEPT !.order =
                       IF accepted
                       THEN Append(@, CHOOSE g \in DOMAIN r.H.geoms :
                                          g \notin DOMAIN geoms)
                       ELSE @]
        /\ last' = [op |-> "add",
                    ret |-> IF accepted THEN "accepted" ELSE "rejected"]
        /\ UNCHANGED engine

Add == AddUpTo(MaxItems)

\* the expansion is run once on a list, as the engines do
MultiplyFromRange ==
    /\ list.n_items <= MaxItems
    /\ ~hist.expanded
    /\ LET r == hkl_geometry_list_multiply_from_range(Heap, list)
       IN  /\ Store(r.H)
           /\ list' = r.L
           /\ hist' = [hist EXCEPT !.expanded = TRUE]
           /\ last' = [op |-> "multiply_from_range", ret |-> TRUE]
           /\ UNCHANGED engine

\* the hook is run once on a list, as the engines do
Multiply ==
    /\ list.n_items <= MaxHookItems
    /\ ~hist.hooked
    /\ \E fits \in [1..list.n_items -> FitOutcomes] :
           /\ Store(hkl_geometry_list_multiply(Heap, list, fits))
           /\ hist' = [hist EXCEPT !.hooked =
                          @ \/ (list.multiply # "NULL" /\ list.n_items > 0)]
           /\ last' = [op |-> "multiply", ret |-> list.multiply # "NULL"]
           /\ UNCHANGED <<list, engine>>

RemoveInvalid ==
    LET r == hkl_geometry_list_remove_invalid(Heap, list)
    IN  /\ Store(r.H)
        /\ list' = r.L
        /\ hist' = [hist EXCEPT !.order =
                       SelectSeq(@, LAMBDA g : g \in DOMAIN r.H.geoms)]
        /\ last' = [op |-> "remove_invalid", ret |-> TRUE]
        /\ UNCHANGED engine

Sort ==
    LET r == hkl_geometry_list_sort(Heap, list, TheGeometry)
    IN  /\ Store(r.H)
        /\ list' = r.L
        /\ hist' = [hist EXCEPT !.sorted = TRUE]
        /\ last' = [op |-> "sort", ret |-> TRUE]
        /\ UNCHANGED engine

Reset ==
    LET r == hkl_geometry_list_reset(Heap, list)
    IN  /\ Store(r.H)
        /\ list' = r.L
        /\ hist' = InitHist
        /\ last' = [op |-> "reset", ret |-> TRUE]
        /\ UNCHANGED engine

Next ==
    \/ SetValues
    \/ Add
    \/ MultiplyFromRange
    \/ Multiply
    \/ RemoveInvalid
    \/ Sort
    \/ Reset

Spec == Init /\ [][Next]_vars

(***************************************************************************)
(* Properties of the solution list                                         *)
(***************************************************************************)
\* the items as a caller sees them: first_get, then next_get until NULL
RECURSIVE IterateFrom(_, _)
IterateFrom(L, item) ==
    IF item = NULL THEN << >>
    ELSE <<item>> \o IterateFrom(L, hkl_geometry_list_items_next_get(L, item))

Iterate(L) == IterateFrom(L, hkl_geometry_list_items_first_get(L))

\* C1 (as claimed): every two distinct items of the list are further apart
\* than epsilon in orthodromic distance, whatever operations built the list
C1_PairwiseStrictlyApart ==
    \A i, j \in 1..Len(list.items) :
        i # j => hkl_geometry_distance_orthodromic(Heap, list.items[i], list.items[j])
                     > HKL_EPSILON

\* C1 (amended): on a list built by add, remove_invalid and sort alone
\* (neither expanded by multiply_from_range nor touched by the multiply
\* hook) every two distinct items are at least epsilon apart
C1_PairwiseApartWithoutMultiply ==
    (~hist.expanded /\ ~hist.hooked) =>
        \A i, j \in 1..Len(list.items) :
            i # j => hkl_geometry_distance_orthodromic(Heap, list.items[i], list.items[j])
                         >= HKL_EPSILON

\* two items exactly epsilon apart, accepted by add
C1_Witness ==
    /\ ~hist.expanded /\ ~hist.hooked
    /\ list.n_items = 2
    /\ hkl_geometry_distance_orthodromic(Heap, list.items[1], list.items[2]) = HKL_EPSILON

\* the heap after the step
HeapP == [params |-> params', geoms |-> geoms', configs |-> configs']

ListOps == {"add", "multiply_from_range", "multiply", "remove_invalid", "sort", "reset"}

C2_NoSharing ==
    /\ \A i \in 1..Len(list.items) :
           Range(geoms[list.items[i]].axes) \cap Range(geoms[TheGeometry].axes) = {}
    /\ \A i, j \in 1..Len(list.items) :
           i # j => Range(geoms[list.items[i]].axes)
                        \cap Range(geoms[list.items[j]].axes) = {}

C2_Frame ==
    /\ last'.op = "axis_values_set" =>
           /\ list' = list
           /\ \A k \in 1..Len(list.items) :
                  /\ geoms'[list.items[k]] = geoms[list.items[k]]
                  /\ AxesOf(HeapP, list.items[k]) = AxesOf(Heap, list.items[k])
    /\ last'.op \in ListOps =>
           /\ geoms'[TheGeometry] = geoms[TheGeometry]
           /\ AxesOf(HeapP, TheGeometry) = AxesOf(Heap, TheGeometry)

\* C2: the items are deep copies.  No item shares an axis with the caller's
\* geometry or with another item; moving the caller's geometry changes no
\* item, and no list operation (the hook that rewrites the items' axes
\* included) changes the axes, holders or wavelength of the caller's geometry
C2_DeepCopies == []C2_NoSharing /\ [][C2_Frame]_vars

\* the caller moved its geometry away from an item made from it, on a list
\* whose items the hook has rewritten
C2_Witness ==
    /\ last.op = "axis_values_set"
    /\ hist.hooked
    /\ \E k \in 1..Len(list.items) :
           /\ list.items[k] \in Range(hist.order)
           /\ ValuesOf(Heap, list.items[k]) # ValuesOf(Heap, TheGeometry)

\* the 2*pi-shifted values of p that lie in [p.min, p.max + tol]
ShiftedInRange(p, tol) ==
    {p.value + TwoPi * k :
        k \in FloorDiv(p.min - p.value, TwoPi) ..
              FloorDiv(p.max + tol - p.value, TwoPi) + 1}
        \cap (p.min .. (p.max + tol))

\* the geometries an item stands for: every permutable axis at one of its
\* shifted values, the other axes as they are, the combinations not further
\* than epsilon from the item left out (as sequences of axis values)
Expected(H, item, tol) ==
    LET axes == AxesOf(H, item)
        cand(i) == IF hkl_parameter_is_permutable(axes[i])
                   THEN ShiftedInRange(axes[i], tol)
                   ELSE {axes[i].value}
    IN  {v \in [1..Len(axes) -> UNION {cand(i) : i \in 1..Len(axes)}] :
            /\ \A i \in 1..Len(axes) : v[i] \in cand(i)
            /\ SumTo([i \in 1..Len(axes) |-> fabs(v[i] - axes[i].value)],
                     Len(axes)) > HKL_EPSILON}

\* a multiply_from_range step keeps the items it found and appends, for each
\* of them, one item per expected combination and nothing else
ExpansionIs(tol) ==
    last'.op = "multiply_from_range" =>
        LET n == list.n_items
            m == Len(list'.items)
            new == {ValuesOf(HeapP, list'.items[k]) : k \in (n + 1)..m}
            all == new \cup UNION {Expected(Heap, list.items[i], tol) : i \in 1..n}
        IN  /\ list'.n_items = m
            /\ m >= n
            /\ SubSeq(list'.items, 1, n) = list.items
            /\ \A i \in 1..n :
                   AxesOf(HeapP, list.items[i]) = AxesOf(Heap, list.items[i])
            /\ \A v \in all :
                   Cardinality({k \in (n + 1)..m :
                                   ValuesOf(HeapP, list'.items[k]) = v})
                     = Cardinality({i \in 1..n :
                                       v \in Expected(Heap, list.items[i], tol)})

\* C6 (as claimed): multiply_from_range appends, for each item it finds, one
\* item per combination of 2*pi-shifted values of the permutable axes lying
\* in [min, max], the combination within epsilon of the item excepted
C6_ExpansionWithinRange == [][ExpansionIs(0)]_vars

\* C6 (amended): the same with the shifted values taken in
\* [min, max + epsilon] (a value up to epsilon above max is still emitted)
C6_ExpansionWithinRangePlusEpsilon == [][ExpansionIs(HKL_EPSILON)]_vars

\* an expansion that emitted a value above the axis maximum
C6_Witness ==
    /\ last.op = "multiply_from_range"
    /\ list.n_items >= 5
    /\ \E k \in 1..Len(list.items) :
           \E i \in 1..darray_size_axes(Heap, list.items[k]) :
               LET p == darray_item_axes(Heap, list.items[k], i - 1)
               IN  p.value > p.max /\ p.value <= p.max + HKL_EPSILON

C9_Iteration ==
    /\ Len(Iterate(list)) = list.n_items
    /\ Cardinality(Range(Iterate(list))) = list.n_items
    /\ ~hist.sorted =>
           SelectSeq(Iterate(list), LAMBDA g : g \in Range(hist.order)) = hist.order

C9_Add ==
    /\ (last'.op = "add" /\ last'.ret = "rejected") =>
           /\ Iterate(list') = Iterate(list)
           /\ list' = list
           /\ HeapP = Heap
    /\ (last'.op = "add" /\ last'.ret = "accepted") =>
           /\ Len(Iterate(list')) = Len(Iterate(list)) + 1
           /\ SubSeq(Iterate(list'), 1, Len(Iterate(list))) = Iterate(list)
           /\ ValuesOf(HeapP, Iterate(list')[Len(Iterate(list'))])
                = ValuesOf(Heap, TheGeometry)

\* C9: first_get then next_get until NULL visits n_items distinct items;
\* as long as no sort was run the items accepted by add come in the order
\* of their acceptance; an accepted add puts a copy of the geometry after
\* all the items, a rejected add changes nothing
C9_IterationOrder == []C9_Iteration /\ [][C9_Add]_vars

\* a rejected add on a list of two items accepted in that order
C9_Witness ==
    /\ last.op = "add" /\ last.ret = "rejected"
    /\ ~hist.sorted
    /\ Len(hist.order) = 2
    /\ Iterate(list) = hist.order

(***************************************************************************)
(* Sorting a solution list: the caller's geometry is the reference; the    *)
(* list holds up to MaxSortItems copies of positions it went through.      *)
(***************************************************************************)
MaxSortItems == 3

SortOmegaValues == {0 - HKL_EPSILON, 0, HKL_EPSILON, 2 * HKL_EPSILON}
SortInputValues == {<<0, 0, o, 0, 0, 0>> : o \in SortOmegaValues}

InitSort ==
    /\ params = SixsHeap.params
    /\ geoms = SixsHeap.geoms
    /\ configs = SixsHeap.configs
    /\ list = hkl_geometry_list_new
    /\ engine = NoEngine
    /\ hist = InitHist
    /\ last = [op |-> "new", ret |-> TRUE]

SortSetValues == SetValuesFrom(SortInputValues)

SortAdd == AddUpTo(MaxSortItems)

NextSort ==
    \/ SortSetValues
    \/ SortAdd
    \/ Sort

SpecSort == InitSort /\ [][NextSort]_vars

\* the distances the sort compares: from the reference to each item
SortDistances(H, L) ==
    [i \in 1..Len(L.items) |-> hkl_geometry_distance(H, TheGeometry, L.items[i])]

PositionOf(L, item) == CHOOSE k \in 1..Len(L.items) : L.items[k] = item

\* C7: after hkl_geometry_list_sort(list, ref), for all positions i < j the
\* distance from ref to item i is at most that to item j plus epsilon
C7_SortedWithinEpsilon ==
    last.op = "sort" =>
        \A i, j \in 1..Len(list.items) :
            i < j => SortDistances(Heap, list)[i]
                         <= SortDistances(Heap, list)[j] + HKL_EPSILON

\* what a sort step does to the pairs of items whose distances are equal
\* within epsilon: their order is kept, or it is reversed
SortTies(keep) ==
    last'.op = "sort" =>
        /\ Len(list'.items) = Len(list.items)
        /\ Range(list'.items) = Range(list.items)
        /\ \A i, j \in 1..Len(list.items) :
               (/\ i < j
                /\ fabs(SortDistances(Heap, list)[i] - SortDistances(Heap, list)[j])
                     <= HKL_EPSILON)
               => IF keep
                  THEN PositionOf(list', list.items[i]) < PositionOf(list', list.items[j])
                  ELSE PositionOf(list', list.items[j]) < PositionOf(list', list.items[i])

\* C8 (as claimed): the sort keeps the relative order of any two items whose
\* distances to the reference are equal within epsilon
C8_SortKeepsTies == [][SortTies(TRUE)]_vars

\* C8 (amended): the sort reverses the relative order of any two items
\* whose distances to the reference are equal within epsilon
C8_SortReversesTies == [][SortTies(FALSE)]_vars

\* a sorted list of three items, two of them at the same distance
C8_Witness ==
    /\ last.op = "sort"
    /\ list.n_items = 3
    /\ \E i, j \in 1..Len(list.items) :
           /\ i < j
           /\ SortDistances(Heap, list)[i] = SortDistances(Heap, list)[j]

(***************************************************************************)
(* Building a geometry: the caller adds holders to a new geometry and axes *)
(* to its holders.  exit(128) ends the process: nothing happens after it.  *)
(***************************************************************************)
MaxHolders == 2

AxisNames == {"omega", "tth"}
AxisVectors == {<<0, 0 - 1, 0>>, <<1, 0, 0>>}
AxisOrigins == {<<0, 0, 0>>, <<0, 0, 1>>}

AddOps == {"add_parameter", "add_rotation", "add_rotation_with_origin", "add_translation"}

InitHolder ==
    /\ params = hkl_geometry_new(EmptyHeap).params
    /\ geoms = hkl_geometry_new(EmptyHeap).geoms
    /\ configs = hkl_geometry_new(EmptyHeap).configs
    /\ list = hkl_geometry_list_new
    /\ engine = NoEngine
    /\ hist = InitHist
    /\ last = [op |-> "new", holder |-> 0, axis |-> hkl_parameter_new_plain(""),
               ret |-> TRUE, idx |-> 0, exit |-> 0]

\* the process is alive
Running == last.exit = 0

AddHolder ==
    /\ Running
    /\ Len(geoms[TheGeometry].holders) < MaxHolders
    /\ Store(hkl_geometry_add_holder(Heap, TheGeometry))
    /\ last' = [last EXCEPT !.op = "add_holder", !.ret = TRUE]
    /\ UNCHANGED <<list, engine, hist>>

\* the effect of one hkl_holder_add_* call whose result is r
HolderAddCall(op, h, axis, r) ==
    /\ Store(r.H)
    /\ last' = [op |-> op, holder |-> h, axis |-> axis,
                ret |-> r.res, idx |-> r.idx, exit |-> r.exit]
    /\ UNCHANGED <<list, engine, hist>>

AddParameter ==
    /\ Running
    /\ \E h \in 1..Len(geoms[TheGeometry].holders), name \in AxisNames :
           HolderAddCall("add_parameter", h, hkl_parameter_new_plain(name),
                         hkl_holder_add_parameter(Heap, TheGeometry, h, name))

AddRotation ==
    /\ Running
    /\ \E h \in 1..Len(geoms[TheGeometry].holders), name \in AxisNames,
          v \in AxisVectors :
           HolderAddCall("add_rotation", h, hkl_parameter_new_rotation(name, v),
                         hkl_holder_add_rotation(Heap, TheGeometry, h, name, v))

AddRotationWithOrigin ==
    /\ Running
    /\ \E h \in 1..Len(geoms[TheGeometry].holders), name \in AxisNames,
          v \in AxisVectors, o \in AxisOrigins :
           HolderAddCall("add_rotation_with_origin", h,
                         hkl_parameter_new_rotation_with_origin(name, v, o),
                         hkl_holder_add_rotation_with_origin(Heap, TheGeometry, h,
                                                             name, v, o))

AddTranslation ==
    /\ Running
    /\ \E h \in 1..Len(geoms[TheGeometry].holders), name \in AxisNames,
          v \in AxisVectors :
           HolderAddCall("add_translation", h, hkl_parameter_new_translation(name, v),
                         hkl_holder_add_translation(Heap, TheGeometry, h, name, v))

NextHolder ==
    \/ AddHolder
    \/ AddParameter
    \/ AddRotation
    \/ AddRotationWithOrigin
    \/ AddTranslation

SpecHolder == InitHolder /\ [][NextHolder]_vars

\* the positions (from 1) of the axes of g that carry that name
AxesNamed(H, g, name) ==
    {i \in 1..darray_size_axes(H, g) : darray_item_axes(H, g, i - 1).name = name}

HolderIdx(H, g, h) == H.configs[H.geoms[g].holders[h].config].idx

C4_Distinct ==
    /\ \A i, j \in 1..darray_size_axes(Heap, TheGeometry) :
           darray_item_axes(Heap, TheGeometry, i - 1).name
             = darray_item_axes(Heap, TheGeometry, j - 1).name => i = j
    /\ \A h \in 1..Len(geoms[TheGeometry].holders) :
           LET idx == HolderIdx(Heap, TheGeometry, h)
           IN  /\ \A a, b \in 1..Len(idx) : idx[a] = idx[b] => a = b
               /\ \A a \in 1..Len(idx) :
                      idx[a] >= 0 /\ idx[a] < darray_size_axes(Heap, TheGeometry)

C4_AddExisting ==
    (/\ last'.op \in AddOps
     /\ last'.exit = 0
     /\ AxesNamed(Heap, TheGeometry, last'.axis.name) # {}) =>
        LET i == CHOOSE i \in AxesNamed(Heap, TheGeometry, last'.axis.name) : TRUE
            idx == HolderIdx(Heap, TheGeometry, last'.holder)
        IN  /\ last'.idx = i - 1
            /\ geoms'[TheGeometry].axes = geoms[TheGeometry].axes
            /\ params' = params
            /\ HolderIdx(HeapP, TheGeometry, last'.holder)
                 = IF \E a \in 1..Len(idx) : idx[a] = i - 1
                   THEN idx ELSE Append(idx, i - 1)
            /\ last'.ret = ~(\E a \in 1..Len(idx) : idx[a] = i - 1)

\* C4: adding an axis whose name exists with a matching transformation
\* returns the index of the existing axis and appends nothing to the axes
\* (the holder lists that index once: it is appended to the holder's list
\* only if the holder did not list it); the names of the axes are pairwise
\* distinct and no holder lists an index twice
C4_AxisInsertionIdempotent == []C4_Distinct /\ [][C4_AddExisting]_vars

\* a second holder took an axis that the first holder had brought in
C4_Witness ==
    /\ last.op \in AddOps
    /\ last.exit = 0
    /\ last.ret
    /\ last.holder = 2
    /\ last.idx = 0
    /\ darray_size_axes(Heap, TheGeometry) = 2
    /\ \E a \in 1..Len(HolderIdx(Heap, TheGeometry, 1)) :
           HolderIdx(Heap, TheGeometry, 1)[a] = 0

C5_Fatal ==
    /\ Running
    /\ last'.op \in AddOps =>
           /\ last'.exit = 128
                <=> \E i \in AxesNamed(Heap, TheGeometry, last'.axis.name) :
                        hkl_parameter_transformation_cmp(
                            darray_item_axes(Heap, TheGeometry, i - 1), last'.axis) # 0
           /\ last'.exit \in {0, 128}
           /\ last'.exit = 128 => HeapP = Heap
           /\ \A i \in AxesNamed(HeapP, TheGeometry, last'.axis.name) :
                  /\ AxesNamed(HeapP, TheGeometry, last'.axis.name) = {i}
                  /\ last'.exit = 0 =>
                         hkl_parameter_transformation_cmp(
                             darray_item_axes(HeapP, TheGeometry, i - 1), last'.axis) = 0

\* C5: an hkl_holder_add_* call whose axis has the name of an existing axis
\* and a transformation that is not compatible ends the process with exit
\* status 128, the geometry left as it was and nothing run after it; a call
\* that returns leaves one axis of that name, compatible with the one added
C5_IncompatibleAxisFatal == [][C5_Fatal]_vars

\* the process ended on an axis named like an existing axis of another kind
C5_Witness ==
    /\ last.op = "add_translation"
    /\ last.exit = 128
    /\ \E i \in AxesNamed(Heap, TheGeometry, last.axis.name) :
           darray_item_axes(Heap, TheGeometry, i - 1).kind = "rotation"

(***************************************************************************)
(* Bringing a geometry close to a reference: the caller holds a geometry   *)
(* and a copy of it (the reference), moves both, gives ranges to the axes  *)
(* of the first and asks for the closest representatives.                  *)
(***************************************************************************)
RefGeometry == NewId({TheGeometry})

\* the axes the caller moves (positions from 1 in the values): omega, delta
ClosestSelfValues ==
    {<<0, 0, o, 0, d, 0>> : o \in {0, 3}, d \in {0, 3, NaN}}
ClosestRefValues ==
    {<<0, 0, o, 0, d, 0>> : o \in {0 - TwoPi, 0}, d \in {0, 3}}

\* the default range, a range without 0 or 3, a range wider than one turn
ClosestRanges ==
    {[min |-> 0 - M_PI, max |-> M_PI],
     [min |-> HKL_EPSILON + 2, max |-> M_PI - 2],
     [min |-> 0 - (TwoPi + 1), max |-> TwoPi - HKL_EPSILON]}

\* the axes (from 0) that get a range: omega, delta
ClosestRangeAxes == {2, 4}

InitClosest ==
    LET H == hkl_geometry_new_copy(hkl_geometry_new_soleil_sixs_med_2_3(EmptyHeap),
                                   TheGeometry)
    IN  /\ params = H.params
        /\ geoms = H.geoms
        /\ configs = H.configs
        /\ list = hkl_geometry_list_new
        /\ engine = NoEngine
        /\ hist = InitHist
        /\ last = [op |-> "new", ret |-> TRUE]

ClosestSetValues == SetValuesFrom(ClosestSelfValues)

ClosestSetRef ==
    \E values \in ClosestRefValues :
        LET r == hkl_geometry_axis_values_set(Heap, RefGeometry, values)
        IN  /\ Store(r.H)
            /\ last' = [op |-> "axis_values_set_ref", ret |-> r.ret]
            /\ UNCHANGED <<list, engine, hist>>

ClosestSetRange ==
    \E i \in ClosestRangeAxes, range \in ClosestRanges :
        /\ Store(hkl_parameter_min_max_set(Heap, TheGeometry, i, range.min, range.max))
        /\ last' = [op |-> "min_max_set", ret |-> TRUE]
        /\ UNCHANGED <<list, engine, hist>>

ClosestFrom ==
    LET r == hkl_geometry_closest_from_geometry_with_range(Heap, TheGeometry,
                                                           RefGeometry)
    IN  /\ Store(r.H)
        /\ last' = [op |-> "closest_from", ret |-> r.ko]
        /\ UNCHANGED <<list, engine, hist>>

NextClosest ==
    \/ ClosestSetValues
    \/ ClosestSetRef
    \/ ClosestSetRange
    \/ ClosestFrom

SpecClosest == InitClosest /\ [][NextClosest]_vars

\* the closest representative of axis i (from 1) of self in heap H
ClosestOf(H, i) ==
    hkl_parameter_value_get_closest(darray_item_axes(H, TheGeometry, i - 1),
                                    darray_item_axes(H, RefGeometry, i - 1))

C10_Step ==
    last'.op = "closest_from" =>
        LET n == darray_size_axes(Heap, TheGeometry)
            nan == \E i \in 1..n : gsl_isnan(ClosestOf(Heap, i))
        IN  /\ last'.ret = nan
            /\ nan => HeapP = Heap
            /\ ~nan =>
                   /\ \A i \in 1..n :
                          darray_item_axes(HeapP, TheGeometry, i - 1)
                            = [darray_item_axes(Heap, TheGeometry, i - 1) EXCEPT
                                  !.value = ClosestOf(Heap, i), !.changed = FALSE]
                   /\ \A j \in 1..Len(geoms[TheGeometry].holders) :
                          geoms'[TheGeometry].holders[j]
                            = hkl_holder_update(HeapP, TheGeometry,
                                                geoms[TheGeometry].holders[j])
            /\ AxesOf(HeapP, RefGeometry) = AxesOf(Heap, RefGeometry)
            /\ geoms'[RefGeometry] = geoms[RefGeometry]

\* C10: a closest_from call on which some axis of self has no representative
\* in its range (NaN) reports the failure and changes nothing: no value, no
\* changed flag, no holder quaternion; a call on which every axis has one
\* sets every axis of self to it and brings the holders up to date; the
\* reference is left as it was
C10_ClosestFromAtomic == [][C10_Step]_vars

\* a failed call on which an axis before the one without a representative
\* had a closest value other than its value
C10_Witness ==
    /\ last.op = "closest_from"
    /\ last.ret
    /\ \E i, j \in 1..darray_size_axes(Heap, TheGeometry) :
           /\ i < j
           /\ gsl_isnan(ClosestOf(Heap, j))
           /\ ~gsl_isnan(ClosestOf(Heap, i))
           /\ ClosestOf(Heap, i) # darray_item_axes(Heap, TheGeometry, i - 1).value

(***************************************************************************)
(* The q engine on E4CVG.  The axes move on the quarter turns (multiples   *)
(* of M_PI / 2), so that the vectors keep integer coordinates; a sine of a *)
(* multiple of pi/4 is kept as its rank: -2, -1, 0, 1, 2 for -1,           *)
(* -sqrt(2)/2, 0, sqrt(2)/2, 1.  q is kept as q / qmax, a sine.            *)
(***************************************************************************)
sin(a) ==
    LET m == gsl_sf_angle_restrict_pos(a)
    IN  CASE m = 0 -> 0
          [] m = HKL_EPSILON -> 1
          [] m = M_PI \div 2 -> 2
          [] m = M_PI - HKL_EPSILON -> 1
          [] m = M_PI -> 0
          [] m = M_PI + HKL_EPSILON -> 0 - 1
          [] m = M_PI + M_PI \div 2 -> 0 - 2
          [] m = TwoPi - HKL_EPSILON -> 0 - 1

cos(a) == sin(a + M_PI \div 2)

hkl_vector_scalar_product(u, v) == u[1] * v[1] + u[2] * v[2] + u[3] * v[3]

hkl_vector_vectorial_product(u, v) ==
    <<u[2] * v[3] - u[3] * v[2], u[3] * v[1] - u[1] * v[3], u[1] * v[2] - u[2] * v[1]>>

\* v turned by one factor <<axis_v, angle>> (a quarter turn or a multiple)
hkl_vector_rotated_around_vector(v, f) ==
    LET k == f[1]
        c == cos(f[2]) \div 2
        s == sin(f[2]) \div 2
        kxv == hkl_vector_vectorial_product(k, v)
        kv == hkl_vector_scalar_product(k, v)
    IN  [i \in 1..3 |-> v[i] * c + kxv[i] * s + k[i] * kv * (1 - c)]

\* q v q*: the factors of q act on v from the last one to the first
RECURSIVE hkl_vector_rotated_quaternion(_, _)
hkl_vector_rotated_quaternion(v, q) ==
    IF q = << >> THEN v
    ELSE hkl_vector_rotated_around_vector(
             hkl_vector_rotated_quaternion(v, Tail(q)), Head(q))

\* the angle of two unit vectors of the grid
hkl_vector_angle(u, v) ==
    CASE hkl_vector_scalar_product(u, v) = 1 -> 0
      [] hkl_vector_scalar_product(u, v) = 0 -> M_PI \div 2
      [] hkl_vector_scalar_product(u, v) = 0 - 1 -> M_PI

\* the direction of the incoming beam: the source is along x
hkl_geometry_ki_get(H, g) == <<1, 0, 0>>

\* the direction of the outgoing beam: the detector is on the last holder
hkl_geometry_kf_get(H, g) ==
    hkl_vector_rotated_quaternion(
        <<1, 0, 0>>, H.geoms[g].holders[Len(H.geoms[g].holders)].q)

\* self takes the axes (marked as changed) and the holder quaternions of src
hkl_geometry_set(H, self, src) ==
    [H EXCEPT
        !.params = [r \in DOMAIN @ |->
            IF r \in Range(H.geoms[self].axes)
            THEN [H.params[H.geoms[src].axes[r[2]]] EXCEPT !.changed = TRUE]
            ELSE @[r]],
        !.geoms[self].holders =
            [j \in 1..Len(@) |-> [@[j] EXCEPT !.q = H.geoms[src].holders[j].q]],
        !.geoms[self].wave_length = H.geoms[src].wave_length]

hkl_geometry_new_eulerian4CVG(H) ==
    LET g == NewId(DOMAIN H.geoms)
        H0 == hkl_geometry_add_holder(hkl_geometry_new(H), g)
        H1 == hkl_holder_add_rotation(H0, g, 1, "omega", <<0, 0 - 1, 0>>).H
        H2 == hkl_holder_add_rotation(H1, g, 1, "chi", <<1, 0, 0>>).H
        H3 == hkl_holder_add_rotation(H2, g, 1, "phi", <<0, 0 - 1, 0>>).H
        H4 == hkl_geometry_add_holder(H3, g)
        H5 == hkl_holder_add_rotation(H4, g, 2, "tth", <<0, 0 - 1, 0>>).H
    IN  hkl_holder_add_rotation(H5, g, 2, "gamma", <<0, 0, 1>>).H

\* the engine hkl_engine_list_new_eulerian4CVG registers under "q": its
\* pseudo axis q and the axis its mode writes
hkl_engine_q_new == [name |-> "q", q |-> 0, axes_w |-> "tth"]

\* the residual of the mode: target - qmax * sin(tth / 2), over qmax
_q_func(x, q) == q - sin(gsl_sf_angle_restrict_symm(x) \div 2)

\* the forward computation: the new value of the pseudo axis q
get_q_real(H, geometry) ==
    LET ki == hkl_geometry_ki_get(H, geometry)
        kf == hkl_geometry_kf_get(H, geometry)
        theta == hkl_vector_angle(ki, kf) \div 2
    IN  IF kf[2] < 0 \/ kf[3] < 0 THEN sin(0 - theta) ELSE sin(theta)

\* the position (from 1) of the axis of that name
AxisPosition(H, g, name) == CHOOSE i \in AxesNamed(H, g, name) : TRUE

\* the points the root finder can stop on, and the roots of the residual it
\* hands over, each lifted into [0, 2*pi)
SolverGrid == {x \in (0 - TwoPi)..TwoPi : x % (M_PI \div 2) = 0}

SolverRoots(q) ==
    {gsl_sf_angle_restrict_pos(x) : x \in {y \in SolverGrid : _q_func(y, q) = 0}}

\* each root gives a candidate: the geometry with the written axis at the
\* root, offered to the list.  The result is [H, L].
RECURSIVE SolverEmit(_, _, _, _, _)
SolverEmit(H, L, E, geometry, roots) ==
    IF roots = {} THEN [H |-> H, L |-> L]
    ELSE LET x == CHOOSE r \in roots : \A s \in roots : r <= s
             w == NewId(DOMAIN H.geoms)
             H1 == hkl_geometry_new_copy(H, geometry)
             ref == H1.geoms[w].axes[AxisPosition(H1, w, E.axes_w)]
             H2 == [H1 EXCEPT !.params[ref] = hkl_parameter_value_set(@, x).p]
             r == hkl_geometry_list_add(hkl_geometry_update(H2, w), L, w)
         IN  SolverEmit(hkl_geometry_free(r.H, w), r.L, E, geometry, roots \ {x})

\* the solutions of the engine for the target q from the geometry; the
\* root finder may also give up (converged = FALSE): the list is then empty
hkl_engine_pseudo_axis_values_set(H, L, E, geometry, q, converged) ==
    LET r == hkl_geometry_list_reset(H, L)
    IN  IF converged
        THEN SolverEmit(r.H, r.L, E, geometry, SolverRoots(q))
        ELSE r

\* the positions of (omega, chi, phi, tth, gamma) the caller moves to
QInputValues ==
    {<<o, 0, 0, t, g>> : o \in {0, M_PI \div 2},
                        t \in {0, M_PI \div 2, M_PI},
                        g \in {0, M_PI \div 2, M_PI}}

\* the targets: q / qmax = -sqrt(2)/2, 0, sqrt(2)/2, 1
QTargets == {0 - 1, 0, 1, 2}

InitQ ==
    /\ params = hkl_geometry_new_eulerian4CVG(EmptyHeap).params
    /\ geoms = hkl_geometry_new_eulerian4CVG(EmptyHeap).geoms
    /\ configs = hkl_geometry_new_eulerian4CVG(EmptyHeap).configs
    /\ list = hkl_geometry_list_new
    /\ engine = hkl_engine_q_new
    /\ hist = InitHist @@ [target |-> 0, adopted |-> FALSE]
    /\ last = [op |-> "new", ret |-> TRUE]

QSetValues ==
    \E values \in QInputValues :
        LET r == hkl_geometry_axis_values_set(Heap, TheGeometry, values)
        IN  /\ Store(r.H)
            /\ hist' = [hist EXCEPT !.adopted = FALSE]
            /\ last' = [op |-> "axis_values_set", ret |-> r.ret]
            /\ UNCHANGED <<list, engine>>

QSet ==
    \E q \in QTargets, converged \in BOOLEAN :
        LET r == hkl_engine_pseudo_axis_values_set(Heap, list, engine, TheGeometry,
                                                   q, converged)
        IN  /\ Store(r.H)
            /\ list' = r.L
            /\ engine' = [engine EXCEPT !.q = q]
            /\ hist' = [hist EXCEPT !.target = q, !.adopted = FALSE]
            /\ last' = [op |-> "pseudo_axis_values_set", ret |-> r.L.n_items > 0]

\* the caller takes one of the solutions
QAdopt ==
    \E k \in 1..Len(list.items) :
        /\ Store(hkl_geometry_set(Heap, TheGeometry, list.items[k]))
        /\ hist' = [hist EXCEPT !.adopted = TRUE]
        /\ last' = [op |-> "geometry_set", ret |-> TRUE]
        /\ UNCHANGED <<list, engine>>

QGet ==
    /\ engine' = [engine EXCEPT !.q = get_q_real(Heap, TheGeometry)]
    /\ last' = [op |-> "pseudo_axes_values_get", ret |-> TRUE]
    /\ UNCHANGED <<params, geoms, configs, list, hist>>

NextQ ==
    \/ QSetValues
    \/ QSet
    \/ QAdopt
    \/ QGet

SpecQ == InitQ /\ [][NextQ]_vars

\* C3: once a geometry returned by pseudo_axis_values_set(q) is adopted with
\* hkl_geometry_set, the forward computation (get_q_real) gives q back
C3_RoundTrip ==
    (last.op = "pseudo_axes_values_get" /\ hist.adopted) => engine.q = hist.target

(***************************************************************************)
(* HklLattice: seven parameters a, b, c, alpha, beta, gamma, volume.  The  *)
(* angles move on the quarter turns, whose cosines are -1, 0, 1; the       *)
(* lengths are small integers.  A lattice is the record of its parameters; *)
(* the caller's lattice is kept in params, one parameter per field, and    *)
(* params is empty as long as the caller has none.  Values are given in    *)
(* the default unit.                                                       *)
(***************************************************************************)
sqrt(x) == CHOOSE r \in 0..x : r * r = x

\* the result is [ok, self]: the parameter is refused when its value is NaN
\* or outside [min, max]
hkl_parameter_new(name, min, value, max, changed) ==
    IF gsl_isnan(value) \/ value < min \/ value > max
    THEN [ok |-> FALSE, self |-> hkl_parameter_new_plain(name)]
    ELSE [ok |-> TRUE,
          self |-> [hkl_parameter_new_plain(name) EXCEPT
                       !.min = min, !.value = value, !.max = max,
                       !.changed = changed]]

hkl_parameter_init_copy(self, src) == [src EXCEPT !.changed = TRUE]

\* the result is [ok, volume]; a comparison with NaN is false, so that a NaN
\* among the angles passes the check
check_lattice_param(a, b, c, alpha, beta, gamma) ==
    LET ca == cos(alpha) \div 2
        cb == cos(beta) \div 2
        cg == cos(gamma) \div 2
        D == IF gsl_isnan(alpha) \/ gsl_isnan(beta) \/ gsl_isnan(gamma) THEN NaN
             ELSE 1 - ca * ca - cb * cb - cg * cg + 2 * ca * cb * cg
    IN  IF ~gsl_isnan(D) /\ D < 0 THEN [ok |-> FALSE, volume |-> NaN]
        ELSE [ok |-> TRUE,
              volume |-> IF gsl_isnan(a) \/ gsl_isnan(b) \/ gsl_isnan(c) \/ gsl_isnan(D)
                         THEN NaN ELSE a * b * c * sqrt(D)]

\* the result is [ok, self]; ok is FALSE when NULL is returned
hkl_lattice_new(a, b, c, alpha, beta, gamma) ==
    LET chk == check_lattice_param(a, b, c, alpha, beta, gamma)
        new == [a |-> hkl_parameter_new("a", 0, a, a + 10, TRUE),
                b |-> hkl_parameter_new("b", 0, b, b + 10, TRUE),
                c |-> hkl_parameter_new("c", 0, c, c + 10, TRUE),
                alpha |-> hkl_parameter_new("alpha", 0 - M_PI, alpha, M_PI, TRUE),
                beta |-> hkl_parameter_new("beta", 0 - M_PI, beta, M_PI, TRUE),
                gamma |-> hkl_parameter_new("gamma", 0 - M_PI, gamma, M_PI, TRUE),
                volume |-> hkl_parameter_new("volume", 0, chk.volume, a * b * c, FALSE)]
    IN  IF ~chk.ok \/ \E f \in DOMAIN new : ~new[f].ok
        THEN [ok |-> FALSE, self |-> << >>]
        ELSE [ok |-> TRUE, self |-> [f \in DOMAIN new |-> new[f].self]]

\* the order in which hkl_lattice_set writes the parameters
LatticeFields == <<"a", "b", "c", "alpha", "beta", "gamma", "volume">>

\* restore_*: the first k parameters get their previous value back
RECURSIVE LatticeRestore(_, _, _)
LatticeRestore(self, previous, k) ==
    IF k = 0 THEN self
    ELSE LatticeRestore(
             [self EXCEPT ![LatticeFields[k]] =
                 hkl_parameter_value_set(@, previous[LatticeFields[k]].value).p],
             previous, k - 1)

\* the parameters are written from the k-th on; the first refusal restores
\* the ones written before it (the volume, written last, has none after it)
RECURSIVE LatticeWrite(_, _, _, _)
LatticeWrite(self, previous, new, k) ==
    IF k > Len(LatticeFields) THEN [ok |-> TRUE, self |-> self]
    ELSE LET r == hkl_parameter_value_set(self[LatticeFields[k]], new[k])
         IN  IF ~r.ok
             THEN [ok |-> FALSE, self |-> LatticeRestore(self, previous, k - 1)]
             ELSE LatticeWrite([self EXCEPT ![LatticeFields[k]] = r.p],
                               previous, new, k + 1)

\* a set that leaves what it wrote when a parameter is refused
hkl_lattice_set_norestore(self, a, b, c, alpha, beta, gamma) ==
    LET chk == check_lattice_param(a, b, c, alpha, beta, gamma)
        new == <<a, b, c, alpha, beta, gamma, chk.volume>>
        first == CHOOSE k \in 1..(Len(new) + 1) :
                     /\ k <= Len(new) => gsl_isnan(new[k])
                     /\ \A j \in 1..(k - 1) : ~gsl_isnan(new[j])
    IN  IF ~chk.ok THEN [ok |-> FALSE, self |-> self]
        ELSE [ok |-> first > Len(new),
              self |-> [f \in DOMAIN self |->
                  IF \E j \in 1..(first - 1) : LatticeFields[j] = f
                  THEN hkl_parameter_value_set(
                           self[f], new[CHOOSE j \in 1..Len(new) :
                                            LatticeFields[j] = f]).p
                  ELSE self[f]]]

\* the result is [ok, self]
hkl_lattice_set(self, a, b, c, alpha, beta, gamma) ==
    LET chk == check_lattice_param(a, b, c, alpha, beta, gamma)
    IN  IF ~chk.ok THEN [ok |-> FALSE, self |-> self]
        ELSE LatticeWrite(self, self, <<a, b, c, alpha, beta, gamma, chk.volume>>, 1)

\* hkl_lattice_a_set ... hkl_lattice_gamma_set: _p names the parameter
HKL_LATTICE_X_SET(self, _p, parameter) ==
    LET v == [f \in DOMAIN self |->
                 IF f = _p THEN hkl_parameter_value_get(parameter)
                 ELSE hkl_parameter_value_get(self[f])]
        r == hkl_lattice_set(self, v.a, v.b, v.c, v.alpha, v.beta, v.gamma)
    IN  IF ~r.ok THEN [ok |-> FALSE, self |-> self]
        ELSE [ok |-> TRUE,
              self |-> [r.self EXCEPT ![_p] = hkl_parameter_init_copy(@, parameter)]]

\* what the caller passes: lengths, angles (quarter turns), and NaN
LatticeLengths == {1, 2}
LatticeAngles == {0, M_PI \div 2, M_PI}
LatticeNewValues ==
    {<<a, 1, 1, al, be, ga>> : a \in LatticeLengths,
                               al \in LatticeAngles, be \in LatticeAngles,
                               ga \in LatticeAngles}
LatticeSetValues ==
    {<<a, 1, c, al, be, ga>> : a \in LatticeLengths, c \in {1, NaN},
                               al \in LatticeAngles, be \in LatticeAngles,
                               ga \in LatticeAngles \cup {NaN}}

InitLattice ==
    /\ params = EmptyHeap.params
    /\ geoms = EmptyHeap.geoms
    /\ configs = EmptyHeap.configs
    /\ list = hkl_geometry_list_new
    /\ engine = NoEngine
    /\ hist = InitHist
    /\ last = [op |-> "new", ret |-> TRUE, args |-> << >>]

\* the caller holds a lattice
HasLattice == DOMAIN params # {}

LatticeNew ==
    /\ ~HasLattice
    /\ \E v \in LatticeNewValues :
           LET r == hkl_lattice_new(v[1], v[2], v[3], v[4], v[5], v[6])
           IN  /\ params' = r.self
               /\ last' = [op |-> "lattice_new", ret |-> r.ok, args |-> v]
    /\ UNCHANGED <<geoms, configs, list, engine, hist>>

LatticeFree ==
    /\ HasLattice
    /\ params' = EmptyHeap.params
    /\ last' = [op |-> "lattice_free", ret |-> TRUE, args |-> << >>]
    /\ UNCHANGED <<geoms, configs, list, engine, hist>>

LatticeSet ==
    /\ HasLattice
    /\ \E v \in LatticeSetValues :
           LET r == hkl_lattice_set(params, v[1], v[2], v[3], v[4], v[5], v[6])
           IN  /\ params' = r.self
               /\ last' = [op |-> "lattice_set", ret |-> r.ok, args |-> v]
    /\ UNCHANGED <<geoms, configs, list, engine, hist>>

\* hkl_lattice_a_set, hkl_lattice_alpha_set, ...: the parameter passed is a
\* copy of the lattice's own, moved to another value
LatticeXSet ==
    /\ HasLattice
    /\ \E f \in {"a", "alpha", "beta", "gamma"} :
       \E x \in IF f = "a" THEN LatticeLengths ELSE LatticeAngles :
           LET r == HKL_LATTICE_X_SET(params, f, [params[f] EXCEPT !.value = x])
           IN  /\ params' = r.self
               /\ last' = [op |-> "lattice_x_set", ret |-> r.ok, args |-> <<f, x>>]
    /\ UNCHANGED <<geoms, configs, list, engine, hist>>

NextLattice ==
    \/ LatticeNew
    \/ LatticeFree
    \/ LatticeSet
    \/ LatticeXSet

SpecLattice == InitLattice /\ [][NextLattice]_vars

\* D = 1 - cos^2(alpha) - cos^2(beta) - cos^2(gamma)
\*       + 2 cos(alpha) cos(beta) cos(gamma)
LatticeD(alpha, beta, gamma) ==
    LET ca == cos(alpha) \div 2
        cb == cos(beta) \div 2
        cg == cos(gamma) \div 2
    IN  1 - ca * ca - cb * cb - cg * cg + 2 * ca * cb * cg

\* C11: hkl_lattice_new returns no lattice and hkl_lattice_set returns FALSE
\* whenever the angles passed have D <= 0; the angles of the lattice the
\* caller holds have D > 0
C11_DegenerateRejected ==
    /\ (/\ last.op \in {"lattice_new", "lattice_set"}
        /\ \A k \in 4..6 : ~gsl_isnan(last.args[k])
        /\ LatticeD(last.args[4], last.args[5], last.args[6]) <= 0)
       => ~last.ret
    /\ HasLattice =>
           LatticeD(params.alpha.value, params.beta.value, params.gamma.value) > 0

C12_Step ==
    (last'.op \in {"lattice_set", "lattice_x_set"} /\ ~last'.ret) =>
        \A f \in DOMAIN params : params'[f].value = params[f].value

\* C12: a hkl_lattice_set or hkl_lattice_x_set call that returns FALSE leaves
\* the values of a, b, c, alpha, beta, gamma and volume as they were
C12_LatticeSetAtomic == [][C12_Step]_vars

\* a set refused on a parameter that comes after one it had written
C12_Witness ==
    /\ last.op = "lattice_set"
    /\ ~last.ret
    /\ HasLattice
    /\ ~gsl_isnan(last.args[1])
    /\ last.args[1] # params.a.value
    /\ check_lattice_param(last.args[1], last.args[2], last.args[3],
                           last.args[4], last.args[5], last.args[6]).ok

(***************************************************************************)
(* The accessors of a geometry: wavelength, axes by name, axes values,     *)
(* validity.  The results are [H, ret, error]: the heap after the call,    *)
(* what the call returns and whether it sets the GError.                   *)
(***************************************************************************)
hkl_geometry_wavelength_set(H, g, wavelength) ==
    [H |-> [H EXCEPT !.geoms[g].wave_length = wavelength],
     ret |-> TRUE, error |-> FALSE]

\* ret is the position (from 1) of the axis returned, NULL for no axis
hkl_geometry_axis_get(H, g, name) ==
    IF AxesNamed(H, g, name) # {}
    THEN [H |-> H, ret |-> CHOOSE i \in AxesNamed(H, g, name) :
                               \A j \in AxesNamed(H, g, name) : i <= j,
          error |-> FALSE]
    ELSE [H |-> H, ret |-> NULL, error |-> TRUE]

\* axis is a parameter of the caller's (none of the geometry's own)
hkl_geometry_axis_set(H, g, name, axis) ==
    IF name # axis.name THEN [H |-> H, ret |-> FALSE, error |-> TRUE]
    ELSE LET same == AxesNamed(H, g, axis.name)
             first == CHOOSE i \in same : \A j \in same : i <= j
             H1 == IF same = {} THEN H
                   ELSE [H EXCEPT !.params[H.geoms[g].axes[first]] =
                            hkl_parameter_init_copy(@, axis)]
         IN  [H |-> hkl_geometry_update(H1, g), ret |-> TRUE, error |-> FALSE]

\* The caller's geometry has one holder with a rotation and a translation.
Wavelengths == {0 - 154, 0, 154}
AxisNamesAsked == {"omega", "tx", "mu"}

InitAxis ==
    LET g == TheGeometry
        H0 == hkl_geometry_add_holder(hkl_geometry_new(EmptyHeap), g)
        H1 == hkl_holder_add_rotation(H0, g, 1, "omega", <<0, 0 - 1, 0>>).H
        H2 == hkl_holder_add_translation(H1, g, 1, "tx", <<1, 0, 0>>).H
    IN  /\ params = H2.params
        /\ geoms = H2.geoms
        /\ configs = H2.configs
        /\ list = hkl_geometry_list_new
        /\ engine = NoEngine
        /\ hist = InitHist
        /\ last = [op |-> "new", ret |-> TRUE, args |-> << >>, error |-> FALSE]

\* a call that gives the heap r.H and returns r.ret
AxisCall(op, args, r) ==
    /\ Store(r.H)
    /\ last' = [op |-> op, ret |-> r.ret, args |-> args, error |-> r.error]
    /\ UNCHANGED <<list, engine, hist>>

\* the axis i (from 0) of the geometry becomes p
AxisStore(H, i, p) == [H EXCEPT !.params[H.geoms[TheGeometry].axes[i + 1]] = p]

WavelengthSet ==
    \E w \in Wavelengths :
        AxisCall("wavelength_set", w, hkl_geometry_wavelength_set(Heap, TheGeometry, w))

AxisGet ==
    \E name \in AxisNamesAsked :
        AxisCall("axis_get", name, hkl_geometry_axis_get(Heap, TheGeometry, name))

AxisSet ==
    \E name \in AxisNamesAsked, n \in AxisNamesAsked, v \in {2, M_PI} :
        LET axis == [hkl_parameter_new_rotation(n, <<0, 0 - 1, 0>>) EXCEPT !.value = v]
        IN  AxisCall("axis_set", [name |-> name, axis |-> axis],
                     hkl_geometry_axis_set(Heap, TheGeometry, name, axis))

AxisValuesSet ==
    \E o \in {2, M_PI, NaN}, t \in {0 - 2, 2, NaN} :
        LET r == hkl_geometry_axis_values_set(Heap, TheGeometry, <<o, t>>)
        IN  AxisCall("axis_values_set", <<o, t>>,
                     [H |-> r.H, ret |-> r.ret, error |-> ~r.ret])

\* the caller sets the value of one axis; args: the axis (from 0), the value
AxisValueSet ==
    \E i \in {0, 1}, v \in {2, NaN} :
        LET r == hkl_parameter_value_set(darray_item_axes(Heap, TheGeometry, i), v)
        IN  AxisCall("value_set", <<i, v>>,
                     [H |-> AxisStore(Heap, i, r.p), ret |-> r.ok, error |-> ~r.ok])

NextAxis ==
    \/ WavelengthSet
    \/ AxisGet
    \/ AxisSet
    \/ AxisValuesSet
    \/ AxisValueSet

SpecAxis == InitAxis /\ [][NextAxis]_vars

\* The values and the ranges of the axes (in grid units, 16 to the turn) are
\* those of the tests of hkl-axis-t.c brought onto the grid.
AxisValues == {0 - 18, 0 - 2, 2, 4, 7, M_PI, 18, NaN}
AxisRanges ==
    {[min |-> 0 - M_PI, max |-> M_PI],
     [min |-> 0 - 12, max |-> 0],
     [min |-> 15, max |-> 20],
     [min |-> 0 - 1, max |-> 4],
     [min |-> 0 - 9, max |-> 9],
     [min |-> 0 - 12, max |-> M_PI]}

\* args: the axis (from 0) and the value
RangeValueSet ==
    \E i \in {0, 1}, v \in AxisValues :
        LET r == hkl_parameter_value_set(darray_item_axes(Heap, TheGeometry, i), v)
        IN  AxisCall("value_set", <<i, v>>,
                     [H |-> AxisStore(Heap, i, r.p), ret |-> r.ok, error |-> ~r.ok])

RangeMinMaxSet ==
    \E i \in {0, 1}, range \in AxisRanges :
        AxisCall("min_max_set", i,
                 [H |-> hkl_parameter_min_max_set(Heap, TheGeometry, i,
                                                  range.min, range.max),
                  ret |-> TRUE, error |-> FALSE])

\* args: the axis (from 0) and the value it had
RangeSmallestInRange ==
    \E i \in {0, 1} :
        LET p == darray_item_axes(Heap, TheGeometry, i)
        IN  AxisCall("smallest_in_range", <<i, p.value>>,
                     [H |-> AxisStore(Heap, i,
                                      hkl_parameter_value_set_smallest_in_range(p)),
                      ret |-> TRUE, error |-> FALSE])

RangeIsValid ==
    AxisCall("is_valid", << >>,
             [H |-> Heap,
              ret |-> [valid |-> hkl_geometry_is_valid(Heap, TheGeometry),
                       valid_range |-> hkl_geometry_is_valid_range(Heap, TheGeometry)],
              error |-> FALSE])

\* args: the axis (from 0) and the value of the reference
RangeGetClosest ==
    \E i \in {0, 1}, v \in {0 - 5, 0 - 3} :
        LET p == darray_item_axes(Heap, TheGeometry, i)
        IN  AxisCall("get_closest", <<i, v>>,
                     [H |-> Heap,
                      ret |-> hkl_parameter_value_get_closest(p, [p EXCEPT !.value = v]),
                      error |-> FALSE])

NextRange ==
    \/ RangeValueSet
    \/ RangeMinMaxSet
    \/ RangeSmallestInRange
    \/ RangeIsValid
    \/ RangeGetClosest

SpecRange == InitAxis /\ [][NextRange]_vars

\* C13: hkl_geometry_wavelength_set refuses a wavelength <= 0 (failure, the
\* stored wavelength as it was): the wavelength of the geometry is > 0
C13_WavelengthPositive ==
    /\ geoms[TheGeometry].wave_length > 0
    /\ (last.op = "wavelength_set" /\ last.args <= 0) => (~last.ret /\ last.error)

C14_Step ==
    /\ (last'.op = "axis_get" /\ AxesNamed(Heap, TheGeometry, last'.args) = {}) =>
           /\ last'.ret = NULL
           /\ last'.error
           /\ HeapP = Heap
    /\ (last'.op = "axis_set" /\ AxesNamed(Heap, TheGeometry, last'.args.name) = {}) =>
           /\ ~last'.ret
           /\ last'.error
           /\ AxesOf(HeapP, TheGeometry) = AxesOf(Heap, TheGeometry)

\* C14: with a name that is the name of no axis of the geometry,
\* hkl_geometry_axis_get returns NULL and hkl_geometry_axis_set returns FALSE,
\* both with the error set, and no axis of the geometry is modified
C14_UnknownAxisName == [][C14_Step]_vars

\* the turns that bring any value of the grid into any range of the grid
Turns == (0 - 3)..3

\* the values v + 2*pi*k of a rotation that lie in [min, max]
InRangeModulo(p) ==
    {p.value + TwoPi * k : k \in Turns} \cap (p.min .. p.max)

C17_ParameterValid(p) ==
    IF p.kind = "rotation" THEN InRangeModulo(p) # {}
    ELSE p.min <= p.value /\ p.value <= p.max

\* C17: a rotation is valid iff some value + 2*pi*k lies in [min, max], any
\* other parameter iff min <= value <= max; hkl_geometry_is_valid (resp.
\* hkl_geometry_is_valid_range) is TRUE iff every axis is valid (resp. has
\* min <= value <= max)
C17_Validity ==
    last.op = "is_valid" =>
        /\ last.ret.valid
             <=> \A i \in 1..darray_size_axes(Heap, TheGeometry) :
                     C17_ParameterValid(darray_item_axes(Heap, TheGeometry, i - 1))
        /\ last.ret.valid_range
             <=> \A i \in 1..darray_size_axes(Heap, TheGeometry) :
                     LET p == darray_item_axes(Heap, TheGeometry, i - 1)
                     IN  p.min <= p.value /\ p.value <= p.max
        /\ \A i \in 1..darray_size_axes(Heap, TheGeometry) :
               hkl_parameter_is_valid(darray_item_axes(Heap, TheGeometry, i - 1))
                 <=> C17_ParameterValid(darray_item_axes(Heap, TheGeometry, i - 1))

\* the rotation is out of its range and valid by a turn, the translation in
\* its range: the geometry is valid, and not valid in range
C17_Witness ==
    /\ last.op = "is_valid"
    /\ last.ret.valid
    /\ ~last.ret.valid_range
    /\ darray_item_axes(Heap, TheGeometry, 0).value
         > darray_item_axes(Heap, TheGeometry, 0).max

C18_Step ==
    last'.op = "smallest_in_range" =>
        LET ref == geoms[TheGeometry].axes[last'.args[1] + 1]
            p == params[ref]
            q == params'[ref]
        IN  /\ \A r \in DOMAIN params \ {ref} : params'[r] = params[r]
            /\ DOMAIN params' = DOMAIN params
            /\ IF p.kind = "rotation"
               THEN /\ \E k \in Turns : q.value = p.value + TwoPi * k
                    /\ q.min <= q.value
                    /\ q.value < q.min + TwoPi
                    /\ [q EXCEPT !.changed = p.changed] = [p EXCEPT !.value = q.value]
                    /\ hkl_parameter_value_set_smallest_in_range(q) = q
               ELSE q = p

\* C18: smallest-in-range gives a rotation the one value v' = v + 2*pi*k
\* with min <= v' < min + 2*pi and changes nothing else; a second call
\* changes nothing; a parameter of another kind is left as it was
C18_SmallestInRange == [][C18_Step]_vars

\* a value inside the range is brought down by a turn (185 -> -175 in the
\* range (-190, 190) of the tests)
C18_Witness ==
    /\ last.op = "smallest_in_range"
    /\ last.args[1] = 0
    /\ LET p == darray_item_axes(Heap, TheGeometry, 0)
       IN  /\ p.min <= last.args[2]
           /\ last.args[2] <= p.max
           /\ p.value = last.args[2] - TwoPi

\* C19: the closest value of a rotation to a reference is NaN iff no
\* value + 2*pi*k lies in [min, max], and otherwise one of these values at
\* the least distance from the reference's value
C19_Closest ==
    (last.op = "get_closest"
       /\ darray_item_axes(Heap, TheGeometry, last.args[1]).kind = "rotation") =>
        LET p == darray_item_axes(Heap, TheGeometry, last.args[1])
            v == last.args[2]
        IN  /\ gsl_isnan(last.ret) <=> InRangeModulo(p) = {}
            /\ ~gsl_isnan(last.ret) =>
                   /\ last.ret \in InRangeModulo(p)
                   /\ \A w \in InRangeModulo(p) :
                          fabs(last.ret - v) <= fabs(w - v)

\* the value is in the range, and the closest one to the reference is a turn
\* below it (100 in (-270, 180) with the reference -85 of the tests)
C19_Witness ==
    /\ last.op = "get_closest"
    /\ last.args[1] = 0
    /\ ~gsl_isnan(last.ret)
    /\ LET p == darray_item_axes(Heap, TheGeometry, 0)
       IN  /\ p.value \in p.min .. p.max
           /\ last.ret = p.value - TwoPi

C19_WitnessNaN ==
    /\ last.op = "get_closest"
    /\ last.args[1] = 0
    /\ gsl_isnan(last.ret)

C20_NoNaN == \A r \in DOMAIN params : ~gsl_isnan(params[r].value)

C20_Step ==
    /\ (last'.op = "value_set" /\ gsl_isnan(last'.args[2])) =>
           /\ ~last'.ret
           /\ darray_item_axes(HeapP, TheGeometry, last'.args[1])
                = darray_item_axes(Heap, TheGeometry, last'.args[1])
    /\ (last'.op = "axis_values_set"
          /\ \E i \in 1..Len(last'.args) : gsl_isnan(last'.args[i])) =>
           /\ ~last'.ret
           /\ \A i \in 1..Len(last'.args) :
                  gsl_isnan(last'.args[i]) =>
                      darray_item_axes(HeapP, TheGeometry, i - 1).value
                        = darray_item_axes(Heap, TheGeometry, i - 1).value

MaxOwners == 3
MaxOwnerHolders == 2

InitOwner ==
    LET g == TheGeometry
        H0 == hkl_geometry_add_holder(hkl_geometry_new(EmptyHeap), g)
        H1 == hkl_holder_add_rotation(H0, g, 1, "omega", <<0, 0 - 1, 0>>).H
    IN  /\ params = H1.params
        /\ geoms = H1.geoms
        /\ configs = H1.configs
        /\ list = hkl_geometry_list_new
        /\ engine = NoEngine
        /\ hist = InitHist
        /\ last = [op |-> "new", g |-> g, holder |-> 1]

OwnerAddHolder ==
    \E g \in DOMAIN geoms :
        /\ Len(geoms[g].holders) < MaxOwnerHolders
        /\ Store(hkl_geometry_add_holder(Heap, g))
        /\ last' = [op |-> "add_holder", g |-> g, holder |-> Len(geoms[g].holders) + 1]
        /\ UNCHANGED <<list, engine, hist>>

OwnerAddRotation ==
    \E g \in DOMAIN geoms, name \in {"omega", "mu"} :
        \E h \in 1..Len(geoms[g].holders) :
            /\ Store(hkl_holder_add_rotation(Heap, g, h, name, <<0, 0 - 1, 0>>).H)
            /\ last' = [op |-> "add_rotation", g |-> g, holder |-> h]
            /\ UNCHANGED <<list, engine, hist>>

OwnerNewCopy ==
    \E g \in DOMAIN geoms :
        /\ Cardinality(DOMAIN geoms) < MaxOwners
        /\ Store(hkl_geometry_new_copy(Heap, g))
        /\ last' = [op |-> "new_copy", g |-> g, holder |-> 0]
        /\ UNCHANGED <<list, engine, hist>>

OwnerItemNew ==
    \E g \in DOMAIN geoms :
        /\ Cardinality(DOMAIN geoms) < MaxOwners
        /\ Store(hkl_geometry_list_item_new(Heap, g))
        /\ last' = [op |-> "item_new", g |-> g, holder |-> 0]
        /\ UNCHANGED <<list, engine, hist>>

OwnerFree ==
    \E g \in DOMAIN geoms :
        /\ Cardinality(DOMAIN geoms) > 1
        /\ Store(hkl_geometry_free(Heap, g))
        /\ last' = [op |-> "free", g |-> g, holder |-> 0]
        /\ UNCHANGED <<list, engine, hist>>

NextOwner ==
    \/ OwnerAddHolder
    \/ OwnerAddRotation
    \/ OwnerNewCopy
    \/ OwnerItemNew
    \/ OwnerFree

SpecOwner == InitOwner /\ [][NextOwner]_vars

C16_IndexValid ==
    \A g \in DOMAIN geoms :
        \A h \in 1..Len(geoms[g].holders) :
            \A a \in 1..Len(HolderIdx(Heap, g, h)) :
                HolderIdx(Heap, g, h)[a] < darray_size_axes(Heap, g)

C16_Step ==
    last'.op = "add_rotation" =>
        \A g \in DOMAIN geoms \ {last'.g} :
            \A h \in 1..Len(geoms[g].holders) :
                HolderIdx(HeapP, g, h) = HolderIdx(Heap, g, h)

\* C16: every index in the axis list of a holder is smaller than the number
\* of axes of the holder's geometry, and adding an axis to a holder of one
\* geometry changes the holder axis list of no other geometry
C16_HolderIndexValid == []C16_IndexValid /\ [][C16_Step]_vars

(***************************************************************************)
(* The modes the diffractometers register.  A mode is the record of its    *)
(* HklModeAutoInfo: its name, the axes it reads, the axes it writes and    *)
(* its residual functions.  The read-only engines (incidence, emergence)   *)
(* have no such mode; tth2 is not in the source.                           *)
(***************************************************************************)
HKL_MODE_AUTO_INFO(name, axes_r, axes_w, functions) ==
    [name |-> name, axes_r |-> axes_r, axes_w |-> axes_w, functions |-> functions]

\* the .size of the HklFunction records of the source
HklFunctionSize ==
    [bissector_func |-> 4, reflectivity_func |-> 4,
     q_func |-> 1, q2_func |-> 2, qper_qpar_func |-> 2]

\* the functions of the hkl engine that the catalogs take from elsewhere:
\* the three components of R.U.B.h - Q, and one more equation for the modes
\* that add a constraint
HklFunctionSizeCommon ==
    [RUBh_minus_Q_func |-> 3, emergence_fixed_func |-> 4,
     double_diffraction_func |-> 4, psi_constant_vertical_func |-> 4,
     psi_func |-> 4]

mode_q == LET axes == <<"tth">>
          IN  HKL_MODE_AUTO_INFO("q", axes, axes, <<"q_func">>)

mode_q2 == LET axes == <<"gamma", "delta">>
           IN  HKL_MODE_AUTO_INFO("q2", axes, axes, <<"q2_func">>)

mode_qper_qpar ==
    LET axes == <<"gamma", "delta">>
    IN  HKL_MODE_AUTO_INFO("qper_qpar", axes, axes, <<"qper_qpar_func">>)

\* an engine with its modes; the first one is the current mode
HklEngineOf(name, modes) == [name |-> name, modes |-> modes, mode |-> 1]

hkl_engine_e4cvg_hkl_new ==
    LET axes == <<"omega", "chi", "phi", "tth", "gamma">>
    IN  HklEngineOf("hkl",
          <<HKL_MODE_AUTO_INFO("bissector", axes, axes, <<"bissector_func">>),
            HKL_MODE_AUTO_INFO("constant_omega", axes, <<"chi", "phi", "tth">>,
                               <<"RUBh_minus_Q_func">>),
            HKL_MODE_AUTO_INFO("constant_chi", axes, <<"omega", "phi", "tth">>,
                               <<"RUBh_minus_Q_func">>),
            HKL_MODE_AUTO_INFO("constant_phi", axes, <<"omega", "chi", "tth">>,
                               <<"RUBh_minus_Q_func">>),
            HKL_MODE_AUTO_INFO("double_diffraction", axes, axes,
                               <<"double_diffraction_func">>),
            HKL_MODE_AUTO_INFO("psi_constant", axes, axes,
                               <<"psi_constant_vertical_func">>)>>)

hkl_engine_e4cvg_psi_new ==
    LET axes == <<"omega", "chi", "phi", "tth", "gamma">>
    IN  HklEngineOf("psi", <<HKL_MODE_AUTO_INFO("psi", axes, axes, <<"psi_func">>)>>)

hkl_engine_e4cgv2_hkl_new ==
    LET axes == <<"omega", "chi", "phi", "tth">>
    IN  HklEngineOf("hkl",
          <<HKL_MODE_AUTO_INFO("bissector", axes, axes, <<"bissector_func">>)>>)

hkl_engine_soleil_sixs_med_2_2_hkl_new ==
    LET axes_r == <<"beta", "mu", "omega", "gamma", "delta">>
    IN  HklEngineOf("hkl",
          <<HKL_MODE_AUTO_INFO("mu_fixed", axes_r, <<"omega", "gamma", "delta">>,
                               <<"RUBh_minus_Q_func">>),
            HKL_MODE_AUTO_INFO("reflectivity", axes_r,
                               <<"mu", "omega", "gamma", "delta">>,
                               <<"reflectivity_func">>),
            HKL_MODE_AUTO_INFO("emergence_fixed", axes_r,
                               <<"mu", "omega", "gamma", "delta">>,
                               <<"emergence_fixed_func">>)>>)

hkl_engine_soleil_sixs_med_1_2_hkl_new ==
    LET axes_r == <<"pitch", "mu", "gamma", "delta">>
    IN  HklEngineOf("hkl",
          <<HKL_MODE_AUTO_INFO("pitch_fixed", axes_r, <<"mu", "gamma", "delta">>,
                               <<"RUBh_minus_Q_func">>),
            HKL_MODE_AUTO_INFO("delta_fixed", axes_r, <<"pitch", "mu", "gamma">>,
                               <<"RUBh_minus_Q_func">>)>>)

hkl_engine_soleil_sixs_med_2_3_hkl_new ==
    LET axes_r == <<"beta", "mu", "omega", "gamma", "delta", "eta_a">>
    IN  HklEngineOf("hkl",
          <<HKL_MODE_AUTO_INFO("mu_fixed", axes_r, <<"omega", "gamma", "delta">>,
                               <<"RUBh_minus_Q_func">>),
            HKL_MODE_AUTO_INFO("gamma_fixed", axes_r, <<"mu", "omega", "delta">>,
                               <<"RUBh_minus_Q_func">>),
            HKL_MODE_AUTO_INFO("emergence_fixed", axes_r,
                               <<"mu", "omega", "gamma", "delta">>,
                               <<"emergence_fixed_func">>)>>)

hkl_engine_soleil_sixs_med_2_3_v2_hkl_new ==
    LET axes_r == <<"mu", "omega", "gamma", "delta", "eta_a">>
    IN  HklEngineOf("hkl",
          <<HKL_MODE_AUTO_INFO("mu_fixed", axes_r, <<"omega", "gamma", "delta">>,
                               <<"RUBh_minus_Q_func">>),
            HKL_MODE_AUTO_INFO("gamma_fixed", axes_r, <<"mu", "omega", "delta">>,
                               <<"RUBh_minus_Q_func">>),
            HKL_MODE_AUTO_INFO("emergence_fixed", axes_r,
                               <<"mu", "omega", "gamma", "delta">>,
                               <<"emergence_fixed_func">>)>>)

\* the engines of the list each diffractometer builds, in the order of the
\* calls of its hkl_engine_list_new_*
REGISTER_DIFFRACTOMETER ==
    LET q2 == HklEngineOf("q2", <<mode_q2>>)
        qper_qpar == HklEngineOf("qper_qpar", <<mode_qper_qpar>>)
    IN  [E4CVG |-> <<hkl_engine_e4cvg_hkl_new, hkl_engine_e4cvg_psi_new,
                     HklEngineOf("q", <<mode_q>>)>>,
         E4CVG2 |-> <<hkl_engine_e4cgv2_hkl_new, q2, qper_qpar>>,
         SOLEIL_SIXS_MED2_2 |->
             <<hkl_engine_soleil_sixs_med_2_2_hkl_new, q2, qper_qpar>>,
         SOLEIL_SIXS_MED1_2 |->
             <<hkl_engine_soleil_sixs_med_1_2_hkl_new, q2, qper_qpar>>,
         SOLEIL_SIXS_MED2_3 |->
             <<hkl_engine_soleil_sixs_med_2_3_hkl_new, q2, qper_qpar>>,
         SOLEIL_SIXS_MED2_3_v2 |->
             <<hkl_engine_soleil_sixs_med_2_3_v2_hkl_new, q2, qper_qpar>>]

\* the engine list of the diffractometer of that name
EngineListOf(d) == [name |-> d, engines |-> REGISTER_DIFFRACTOMETER[d]]

InitModes ==
    /\ params = EmptyHeap.params
    /\ geoms = EmptyHeap.geoms
    /\ configs = EmptyHeap.configs
    /\ list = hkl_geometry_list_new
    /\ engine = EngineListOf("E4CVG2")
    /\ hist = InitHist
    /\ last = [op |-> "new", e |-> 0, ret |-> << >>]

\* the caller asks a factory for its engine list
ModesEngineListNew ==
    \E d \in DOMAIN REGISTER_DIFFRACTOMETER :
        /\ engine' = EngineListOf(d)
        /\ last' = [op |-> "engine_list_new", e |-> 0, ret |-> << >>]
        /\ UNCHANGED <<params, geoms, configs, list, hist>>

\* the caller makes the mode of that name the current mode of an engine
ModesModeSet ==
    \E e \in 1..Len(engine.engines) :
        \E m \in 1..Len(engine.engines[e].modes) :
            /\ engine' = [engine EXCEPT !.engines[e].mode = m]
            /\ last' = [op |-> "current_mode_set", e |-> e,
                        ret |-> engine.engines[e].modes[m].name]
            /\ UNCHANGED <<params, geoms, configs, list, hist>>

\* the caller reads the names of the axes the current mode reads or writes
ModesAxisNamesGet ==
    \E e \in 1..Len(engine.engines), mode \in {"axes_r", "axes_w"} :
        /\ last' = [op |-> mode, e |-> e,
                    ret |-> LET m == engine.engines[e].modes[engine.engines[e].mode]
                            IN  IF mode = "axes_r" THEN m.axes_r ELSE m.axes_w]
        /\ UNCHANGED <<params, geoms, configs, list, engine, hist>>

NextModes ==
    \/ ModesEngineListNew
    \/ ModesModeSet
    \/ ModesAxisNamesGet

SpecModes == InitModes /\ [][NextModes]_vars

RECURSIVE FunctionsSize(_, _)
\* the sizes of the functions from the k-th one on, added up
FunctionsSize(functions, k) ==
    IF k > Len(functions) THEN 0
    ELSE (HklFunctionSize @@ HklFunctionSizeCommon)[functions[k]]
           + FunctionsSize(functions, k + 1)

\* C15: every mode of every engine of the list has as many write axes as
\* the sizes of its residual functions add up to
C15_ModeSquare ==
    \A e \in 1..Len(engine.engines) :
        \A m \in 1..Len(engine.engines[e].modes) :
            Len(engine.engines[e].modes[m].axes_w)
              = FunctionsSize(engine.engines[e].modes[m].functions, 1)

(***************************************************************************)
(* The holders' quaternions as a cache of the axis values: the caller      *)
(* holds a geometry and a copy of it (the reference).  The one holder has  *)
(* a rotation, a translation and a second rotation after it.               *)
(***************************************************************************)

\* the values are set axis after axis; the first refusal brings the holders
\* up to date and returns FALSE
hkl_geometry_set_values_v(H, g, values) ==
    LET r == AxisValuesSetLoop(H, g, values, 1)
    IN  IF r.ret THEN r ELSE [H |-> hkl_geometry_update(r.H, g), ret |-> FALSE]

\* hkl_parameter_randomize gives each axis a value of its range: values[i]
hkl_geometry_randomize(H, g, values) ==
    hkl_geometry_update(
        [H EXCEPT !.params = [r \in DOMAIN @ |->
            IF r \in Range(H.geoms[g].axes)
            THEN [@[r] EXCEPT !.value = values[r[2]], !.changed = TRUE]
            ELSE @[r]]],
        g)

\* the values the caller gives the axes; the reference gets the first three
CacheRefValues == {<<0, 0, 0>>, <<TwoPi, 0, 4>>, <<0, 2, 4>>}
CacheValues == CacheRefValues \cup {<<4, 0, 0>>, <<4, NaN, 4>>, <<NaN, 2, 0>>}

InitCache ==
    LET g == TheGeometry
        H0 == hkl_geometry_add_holder(hkl_geometry_new(EmptyHeap), g)
        H1 == hkl_holder_add_rotation(H0, g, 1, "omega", <<0, 0 - 1, 0>>).H
        H2 == hkl_holder_add_translation(H1, g, 1, "tx", <<1, 0, 0>>).H
        H3 == hkl_holder_add_rotation(H2, g, 1, "phi", <<1, 0, 0>>).H
        H4 == hkl_geometry_new_copy(hkl_geometry_update(H3, g), g)
    IN  /\ params = H4.params
        /\ geoms = H4.geoms
        /\ configs = H4.configs
        /\ list = hkl_geometry_list_new
        /\ engine = NoEngine
        /\ hist = InitHist
        /\ last = [op |-> "new", g |-> TheGeometry, ret |-> TRUE]

\* a call on the geometry g that gives the heap H and returns ret
CacheCall(op, g, H, ret) ==
    /\ Store(H)
    /\ last' = [op |-> op, g |-> g, ret |-> ret]
    /\ UNCHANGED <<list, engine, hist>>

CacheAxisValuesSet ==
    \E g \in DOMAIN geoms, values \in CacheValues :
        LET r == hkl_geometry_axis_values_set(Heap, g, values)
        IN  /\ g = RefGeometry => values \in CacheRefValues
            /\ CacheCall("axis_values_set", g, r.H, r.ret)

CacheSetValuesV ==
    \E values \in CacheValues :
        LET r == hkl_geometry_set_values_v(Heap, TheGeometry, values)
        IN  CacheCall("set_values_v", TheGeometry, r.H, r.ret)

CacheAxisSet ==
    \E name \in {"omega", "mu"} :
        LET axis == [hkl_parameter_new_rotation(name, <<0, 0 - 1, 0>>) EXCEPT !.value = 4]
            r == hkl_geometry_axis_set(Heap, TheGeometry, name, axis)
        IN  CacheCall("axis_set", TheGeometry, r.H, r.ret)

CacheRandomize ==
    \E values \in {<<4, 0, 0>>, <<0, 2, 4>>} :
        CacheCall("randomize", TheGeometry,
                  hkl_geometry_randomize(Heap, TheGeometry, values), TRUE)

CacheClosestFrom ==
    LET r == hkl_geometry_closest_from_geometry_with_range(Heap, TheGeometry,
                                                           RefGeometry)
    IN  CacheCall("closest_from", TheGeometry, r.H, r.ko)

CacheSet ==
    CacheCall("set", TheGeometry, hkl_geometry_set(Heap, TheGeometry, RefGeometry), TRUE)

\* ret: whether the update found a changed flag set
CacheUpdate ==
    CacheCall("update", TheGeometry, hkl_geometry_update(Heap, TheGeometry),
              \E i \in 1..darray_size_axes(Heap, TheGeometry) :
                  darray_item_axes(Heap, TheGeometry, i - 1).changed)

CacheDistance ==
    CacheCall("distance_orthodromic", TheGeometry, Heap,
              [ab |-> hkl_geometry_distance_orthodromic(Heap, TheGeometry, RefGeometry),
               ba |-> hkl_geometry_distance_orthodromic(Heap, RefGeometry, TheGeometry)])

NextCache ==
    \/ CacheAxisValuesSet
    \/ CacheSetValuesV
    \/ CacheAxisSet
    \/ CacheRandomize
    \/ CacheClosestFrom
    \/ CacheSet
    \/ CacheUpdate
    \/ CacheDistance

SpecCache == InitCache /\ [][NextCache]_vars

\* the axes (from 1) of the two geometries whose values differ: by other than
\* whole turns for a rotation, at all for another axis
AxesApart(rotations_only) ==
    {i \in 1..darray_size_axes(Heap, TheGeometry) :
        LET a == darray_item_axes(Heap, TheGeometry, i - 1)
            b == darray_item_axes(Heap, RefGeometry, i - 1)
        IN  IF a.kind = "rotation" THEN (a.value - b.value) % TwoPi # 0
            ELSE ~rotations_only /\ a.value # b.value}

\* C21 as stated: the orthodromic distance is non-negative, symmetric, and
\* zero iff every rotation axis of the one coincides with the axis of the
\* other modulo 2*pi
C21_Orthodromic ==
    last.op = "distance_orthodromic" =>
        /\ last.ret.ab >= 0
        /\ last.ret.ab = last.ret.ba
        /\ last.ret.ab = 0 <=> AxesApart(TRUE) = {}

\* C21 amended: the orthodromic distance is non-negative, symmetric, and
\* zero iff every rotation axis of the one coincides with the axis of the
\* other modulo 2*pi and every other axis has the value of the other's
C21_OrthodromicAllAxes ==
    last.op = "distance_orthodromic" =>
        /\ last.ret.ab >= 0
        /\ last.ret.ab = last.ret.ba
        /\ last.ret.ab = 0 <=> AxesApart(FALSE) = {}

\* the distance is zero between two geometries a whole turn apart
C21_Witness ==
    /\ last.op = "distance_orthodromic"
    /\ last.ret.ab = 0
    /\ darray_item_axes(Heap, TheGeometry, 0).value
         # darray_item_axes(Heap, RefGeometry, 0).value

RECURSIVE QuaternionsFrom(_, _, _, _, _)
\* the quaternions of the axes idx[i], idx[i+1], ... of g in their order,
\* up to the first axis that carries none (stop) or with these axes left
\* out (~stop)
QuaternionsFrom(H, g, idx, i, stop) ==
    IF i > Len(idx) THEN << >>
    ELSE LET p == darray_item_axes(H, g, idx[i])
         IN  IF p.kind = "rotation"
             THEN << <<p.axis_v, p.value>> >> \o QuaternionsFrom(H, g, idx, i + 1, stop)
             ELSE IF stop THEN << >>
             ELSE QuaternionsFrom(H, g, idx, i + 1, stop)

\* some axis of g has its changed flag set
Dirty(H, g) == \E i \in 1..darray_size_axes(H, g) : darray_item_axes(H, g, i - 1).changed

C22_Step ==
    (last'.op = "update" /\ Dirty(Heap, last'.g)) =>
        \A j \in 1..Len(geoms'[last'.g].holders) :
            geoms'[last'.g].holders[j].q
              = QuaternionsFrom(HeapP, last'.g, HolderIdx(HeapP, last'.g, j), 1, TRUE)

C23_Step ==
    last'.op = "update" =>
        LET g == last'.g
        IN  /\ ValuesOf(HeapP, g) = ValuesOf(Heap, g)
            /\ Dirty(Heap, g) =>
                   /\ ~Dirty(HeapP, g)
                   /\ \A j \in 1..Len(geoms'[g].holders) :
                          geoms'[g].holders[j].q
                            = QuaternionsFrom(HeapP, g, HolderIdx(HeapP, g, j), 1, FALSE)
                   /\ \A i \in 1..darray_size_axes(Heap, g) :
                          darray_item_axes(HeapP, g, i - 1)
                            = [darray_item_axes(Heap, g, i - 1) EXCEPT !.changed = FALSE]
            /\ ~Dirty(Heap, g) => HeapP = Heap

\* C23: hkl_geometry_update with some changed flag set recomputes the q of
\* every holder from the values of the axes and leaves no flag set; with no
\* flag set it modifies no holder and no axis; it never modifies a value
C23_Update == [][C23_Step]_vars

\* an update found a flag set and a holder that was out of date
C23_Witness ==
    /\ last.op = "update"
    /\ last.ret
    /\ ~Dirty(Heap, TheGeometry)
    /\ darray_item_axes(Heap, TheGeometry, 0).value
         # darray_item_axes(Heap, RefGeometry, 0).value
    /\ geoms[TheGeometry].holders[1].q # geoms[RefGeometry].holders[1].q

C24_Step ==
    last'.op \in {"axis_set", "axis_values_set", "set_values_v", "randomize",
                  "closest_from", "set"} =>
        /\ ~Dirty(HeapP, last'.g)
        /\ \A j \in 1..Len(geoms'[last'.g].holders) :
               geoms'[last'.g].holders[j].q
                 = QuaternionsFrom(HeapP, last'.g, HolderIdx(HeapP, last'.g, j), 1, FALSE)

\* C24: when a mutator of the geometry returns, with success or failure, no
\* axis has its changed flag set and the q of every holder is the product of
\* the current quaternions of its rotation axes
C24_CacheCoherent == [][C24_Step]_vars

(***************************************************************************)
(* The B matrix of a lattice and its inverse.  An entry of a matrix is a   *)
(* fraction <<n, d>> in lowest terms, d >= 0; <<1, 0>> and <<-1, 0>> are   *)
(* the infinities and <<0, 0>> is the double NaN.  B is in units of        *)
(* HKL_TAU and 1/B in units of 1/HKL_TAU.                                  *)
(***************************************************************************)
RECURSIVE FracGcd(_, _)
FracGcd(n, d) == IF d = 0 THEN n ELSE FracGcd(d, n % d)

Frac(n, d) ==
    LET s == IF d < 0 THEN 0 - 1 ELSE 1
        an == IF n < 0 THEN 0 - n ELSE n
        g == FracGcd(an, s * d)
    IN  IF g = 0 THEN <<0, 0>> ELSE <<(s * n) \div g, (s * d) \div g>>

FracTimes(x, y) == Frac(x[1] * y[1], x[2] * y[2])
FracDiv(x, y) == Frac(x[1] * y[2], x[2] * y[1])
FracMinus(x, y) == Frac(x[1] * y[2] - y[1] * x[2], x[2] * y[2])
FracNeg(x) == <<0 - x[1], x[2]>>
FracZero == Frac(0, 1)
FracOne == Frac(1, 1)

\* the result is [ok, B]; B is left as it was, tmp here, when D <= 0
hkl_lattice_get_B(self, tmp) ==
    LET value(f) == hkl_parameter_value_get(self[f])
        c_alpha == cos(value("alpha")) \div 2
        c_beta == cos(value("beta")) \div 2
        c_gamma == cos(value("gamma")) \div 2
        D == 1 - c_alpha * c_alpha - c_beta * c_beta - c_gamma * c_gamma
               + 2 * c_alpha * c_beta * c_gamma
        s_alpha == sin(value("alpha")) \div 2
        s_beta == sin(value("beta")) \div 2
        s_gamma == sin(value("gamma")) \div 2
        b11 == Frac(1, value("b") * s_alpha)
        b22 == Frac(1, value("c"))
        t == FracDiv(b22, Frac(s_alpha, 1))
        sD == Frac(sqrt(D), 1)
    IN  IF ~(D > 0) THEN [ok |-> FALSE, B |-> tmp]
        ELSE [ok |-> TRUE,
              B |-> << <<Frac(s_alpha, value("a") * sqrt(D)),
                         FracTimes(FracDiv(b11, sD),
                                   Frac(c_alpha * c_beta - c_gamma, 1)),
                         FracTimes(FracDiv(t, sD),
                                   Frac(c_gamma * c_alpha - c_beta, 1))>>,
                       <<FracZero, b11,
                         FracTimes(FracDiv(t, Frac(s_beta * s_gamma, 1)),
                                   Frac(c_beta * c_gamma - c_alpha, 1))>>,
                       <<FracZero, FracZero, b22>> >>]

\* the inverse of the upper triangular matrix m
InverseOf(m) ==
    LET a == m[1][1]
        b == m[1][2]
        c == m[1][3]
        d == m[2][2]
        e == m[2][3]
        f == m[3][3]
    IN  << <<FracDiv(FracOne, a),
             FracDiv(FracDiv(FracNeg(b), a), d),
             FracDiv(FracDiv(FracDiv(FracMinus(FracTimes(b, e), FracTimes(d, c)),
                                     a), d), f)>>,
           <<FracZero, FracDiv(FracOne, d), FracDiv(FracDiv(FracNeg(e), d), f)>>,
           <<FracZero, FracZero, FracDiv(FracOne, f)>> >>

\* the result is [ok, B]; tmp is what the local matrix holds before
\* hkl_lattice_get_B is called on it (it is not initialized); the result of
\* hkl_lattice_get_B is not looked at
hkl_lattice_get_1_B(self, tmp) ==
    [ok |-> TRUE, B |-> InverseOf(hkl_lattice_get_B(self, tmp).B)]

\* what an uninitialized matrix may hold
StackMatrices ==
    {<< <<a, b, FracZero>>, <<FracZero, d, FracZero>>, <<FracZero, FracZero, FracOne>> >> :
        a \in {FracZero, FracOne}, b \in {FracZero, FracOne},
        d \in {FracOne, Frac(1, 2)}}

LatticeGetB ==
    /\ HasLattice
    /\ \E tmp \in StackMatrices :
           LET r == hkl_lattice_get_B(params, tmp)
           IN  last' = [op |-> "get_B", ret |-> r.ok, args |-> r.B]
    /\ UNCHANGED <<params, geoms, configs, list, engine, hist>>

LatticeGet1B ==
    /\ HasLattice
    /\ \E tmp \in StackMatrices :
           LET r == hkl_lattice_get_1_B(params, tmp)
           IN  last' = [op |-> "get_1_B", ret |-> r.ok, args |-> r.B]
    /\ UNCHANGED <<params, geoms, configs, list, engine, hist>>

NextB ==
    \/ LatticeNew
    \/ LatticeFree
    \/ LatticeSet
    \/ LatticeXSet
    \/ LatticeGetB
    \/ LatticeGet1B

SpecB == InitLattice /\ [][NextB]_vars

\* C25: hkl_lattice_get_1_B returns FALSE whenever hkl_lattice_get_B fails
\* for the lattice (D <= 0); when it returns TRUE the matrix it stored is
\* the inverse of the B matrix of the lattice
C25_Get1BReportsFailure ==
    last.op = "get_1_B" =>
        LET r == hkl_lattice_get_B(params, << >>)
        IN  /\ ~r.ok => ~last.ret
            /\ last.ret => r.ok /\ last.args = InverseOf(r.B)

C26_Step ==
    last'.op = "remove_invalid" =>
        LET kept == SelectSeq(list.items,
                              LAMBDA g : hkl_geometry_is_valid_range(Heap, g))
        IN  /\ list'.items = kept
            /\ \A k \in 1..Len(list'.items) :
                   /\ hkl_geometry_is_valid_range(HeapP, list'.items[k])
                   /\ AxesOf(HeapP, list'.items[k]) = AxesOf(Heap, list'.items[k])
            /\ list'.n_items = list.n_items - (Len(list.items) - Len(kept))
            /\ list'.n_items = Len(list'.items)

\* C26: after hkl_geometry_list_remove_invalid the list holds exactly the
\* items that satisfied hkl_geometry_is_valid_range, in the order they had
\* and with the axes they had, and n_items went down by the number of
\* items removed
C26_RemoveInvalid == [][C26_Step]_vars

\* a cleanup removed an item that stood before one it kept
C26_Witness ==
    /\ last.op = "remove_invalid"
    /\ list.n_items >= 1
    /\ \E k \in 1..Len(list.items) :
       \E g \in 1..list.items[k] :
           g # TheGeometry /\ g \notin DOMAIN geoms

(***************************************************************************)
(* SOLEIL SIXS MED 2+3 v2: the hook is run by post_engine_set when the     *)
(* parameter eta_a_rotation of the engine list says so.  The value of this *)
(* parameter is kept in halves (FlagUnit stands for 1.0); the engine list  *)
(* is the record of its parameters, its solutions being the list.          *)
(***************************************************************************)
hkl_geometry_new_soleil_sixs_med_2_3_v2(H) ==
    LET g == NewId(DOMAIN H.geoms)
        H0 == hkl_geometry_add_holder(hkl_geometry_new(H), g)
        H1 == hkl_holder_add_rotation(H0, g, 1, "mu", <<0, 0, 1>>).H
        H2 == hkl_holder_add_rotation(H1, g, 1, "omega", <<0, 0 - 1, 0>>).H
        H3 == hkl_geometry_add_holder(H2, g)
        H4 == hkl_holder_add_rotation(H3, g, 2, "gamma", <<0, 0, 1>>).H
        H5 == hkl_holder_add_rotation(H4, g, 2, "delta", <<0, 0 - 1, 0>>).H
    IN  hkl_holder_add_rotation(H5, g, 2, "eta_a", <<0 - 1, 0, 0>>).H

FlagUnit == 2

\* int x = (a double): the value is truncated towards zero
DoubleToInt(x) ==
    IF x >= 0 THEN x \div FlagUnit ELSE 0 - ((0 - x) \div FlagUnit)

hkl_engine_list_new_soleil_sixs_med_2_3_v2 ==
    [name |-> "soleil_sixs_med_2_3_v2",
     parameters |-> <<[hkl_parameter_new_plain("eta_a_rotation") EXCEPT
                          !.value = 0, !.min = 0, !.max = FlagUnit]>>]

\* fits[i] is what the root finder does on the i-th item
hkl_engine_list_post_engine_set_med_2_3_v2_real(H, self, geometries, fits) ==
    LET eta_a_rotation == DoubleToInt(self.parameters[1].value)
    IN  IF eta_a_rotation = 1
        THEN MultiplyLoop(H, geometries, fits, 1, geometries.n_items)
        ELSE H

\* the positions the caller moves the diffractometer to: (mu, omega, gamma,
\* delta, eta_a)
HookInputValues ==
    {<<0, o, 0, 0, e>> : o \in {0, M_PI \div 2}, e \in {0, M_PI \div 2}}

\* the values the caller gives eta_a_rotation: 0, 1/2, 1 and 3/2
EtaARotationValues == {0, FlagUnit \div 2, FlagUnit, FlagUnit + FlagUnit \div 2}

InitHook ==
    /\ params = hkl_geometry_new_soleil_sixs_med_2_3_v2(EmptyHeap).params
    /\ geoms = hkl_geometry_new_soleil_sixs_med_2_3_v2(EmptyHeap).geoms
    /\ configs = hkl_geometry_new_soleil_sixs_med_2_3_v2(EmptyHeap).configs
    /\ list = hkl_geometry_list_new
    /\ engine = hkl_engine_list_new_soleil_sixs_med_2_3_v2
    /\ hist = InitHist
    /\ last = [op |-> "new", ret |-> TRUE, fits |-> << >>]

HookSetValues ==
    \E values \in HookInputValues :
        LET r == hkl_geometry_axis_values_set(Heap, TheGeometry, values)
        IN  /\ Store(r.H)
            /\ last' = [op |-> "axis_values_set", ret |-> r.ret, fits |-> << >>]
            /\ UNCHANGED <<list, engine, hist>>

HookAdd ==
    LET r == hkl_geometry_list_add(Heap, list, TheGeometry)
    IN  /\ list.n_items < MaxHookItems
        /\ Store(r.H)
        /\ list' = r.L
        /\ last' = [op |-> "add", ret |-> r.L.n_items > list.n_items, fits |-> << >>]
        /\ UNCHANGED <<engine, hist>>

HookReset ==
    LET r == hkl_geometry_list_reset(Heap, list)
    IN  /\ Store(r.H)
        /\ list' = r.L
        /\ last' = [op |-> "reset", ret |-> TRUE, fits |-> << >>]
        /\ UNCHANGED <<engine, hist>>

\* hkl_parameter_value_set on the parameter of the engine list
HookParameterSet ==
    \E v \in EtaARotationValues :
        /\ engine' = [engine EXCEPT !.parameters[1] = hkl_parameter_value_set(@, v).p]
        /\ last' = [op |-> "parameter_set", ret |-> TRUE, fits |-> << >>]
        /\ UNCHANGED <<params, geoms, configs, list, hist>>

HookPostEngineSet ==
    \E fits \in [1..list.n_items -> FitOutcomes] :
        /\ Store(hkl_engine_list_post_engine_set_med_2_3_v2_real(
                     Heap, engine, list, fits))
        /\ last' = [op |-> "post_engine_set", ret |-> TRUE, fits |-> fits]
        /\ UNCHANGED <<list, engine, hist>>

NextHook ==
    \/ HookSetValues
    \/ HookAdd
    \/ HookReset
    \/ HookParameterSet
    \/ HookPostEngineSet

SpecHook == InitHook /\ [][NextHook]_vars

\* the index, from 1, of the slits axis of an item: the last axis of its
\* detector holder
SlitsAxis(H, item) ==
    LET idx == H.configs[H.geoms[item].holders[2].config].idx
    IN  idx[Len(idx)] + 1

\* post_engine_set with the hook run when applies is true: the list keeps
\* its items, every axis but the slits axis keeps its value, the caller's
\* geometry is left alone; where the hook runs, the slits axis of an item
\* keeps its value when the fit failed and gets the fitted one otherwise;
\* where it does not run nothing changes
HookFrame(applies) ==
    last'.op = "post_engine_set" =>
        /\ list' = list
        /\ DOMAIN geoms' = DOMAIN geoms
        /\ ValuesOf(HeapP, TheGeometry) = ValuesOf(Heap, TheGeometry)
        /\ \A k \in 1..Len(list.items) :
               LET item == list.items[k]
                   s == SlitsAxis(Heap, item)
               IN  /\ \A i \in 1..darray_size_axes(Heap, item) :
                          i # s => ValuesOf(HeapP, item)[i] = ValuesOf(Heap, item)[i]
                   /\ applies /\ ~last'.fits[k].ok =>
                          ValuesOf(HeapP, item)[s] = ValuesOf(Heap, item)[s]
                   /\ applies /\ last'.fits[k].ok =>
                          ValuesOf(HeapP, item)[s]
                            = gsl_sf_angle_restrict_pos(last'.fits[k].x)
        /\ ~applies => HeapP = Heap

\* C27 (as claimed): the hook changes no axis of an item but eta_a, adds and
\* removes no item, and leaves eta_a where it was when the fit does not
\* converge; post_engine_set runs it on the items present at the call, and
\* only when the parameter eta_a_rotation is 1
C27_HookOnlyWhenOne ==
    [][HookFrame(engine.parameters[1].value = FlagUnit)]_vars

\* C27 (amended): the same, the hook being run when the value of
\* eta_a_rotation converted to an integer is 1
C27_HookWhenIntegerPartOne ==
    [][HookFrame(DoubleToInt(engine.parameters[1].value) = 1)]_vars

\* post_engine_set ran the hook on two items: the fit of one converged and
\* moved its eta_a, the fit of the other failed
C27_Witness ==
    /\ last.op = "post_engine_set"
    /\ DoubleToInt(engine.parameters[1].value) = 1
    /\ list.n_items = 2
    /\ last.fits[1].ok
    /\ ~last.fits[2].ok
    /\ ValuesOf(Heap, list.items[1])[SlitsAxis(Heap, list.items[1])]
         = gsl_sf_angle_restrict_pos(last.fits[1].x)
    /\ ValuesOf(Heap, list.items[2])[SlitsAxis(Heap, list.items[2])] = M_PI \div 2

(***************************************************************************)
(* The factories: for each diffractometer the canonical list of the names  *)
(* of its axes and the constructor of its geometry.  The geometry keeps    *)
(* its factory; here the caller's factory is kept beside the geometry.     *)
(***************************************************************************)
hkl_geometry_new_soleil_sixs_med_2_2(H) ==
    LET g == NewId(DOMAIN H.geoms)
        H0 == hkl_geometry_add_holder(hkl_geometry_new(H), g)
        H1 == hkl_holder_add_rotation(H0, g, 1, "beta", <<0, 0 - 1, 0>>).H
        H2 == hkl_holder_add_rotation(H1, g, 1, "mu", <<0, 0, 1>>).H
        H3 == hkl_holder_add_rotation(H2, g, 1, "omega", <<0, 0 - 1, 0>>).H
        H4 == hkl_geometry_add_holder(H3, g)
        H5 == hkl_holder_add_rotation(H4, g, 2, "beta", <<0, 0 - 1, 0>>).H
        H6 == hkl_holder_add_rotation(H5, g, 2, "gamma", <<0, 0, 1>>).H
    IN  hkl_holder_add_rotation(H6, g, 2, "delta", <<0, 0 - 1, 0>>).H

hkl_geometry_new_soleil_sixs_med_1_2(H) ==
    LET g == NewId(DOMAIN H.geoms)
        H0 == hkl_geometry_add_holder(hkl_geometry_new(H), g)
        H1 == hkl_holder_add_rotation(H0, g, 1, "pitch", <<0, 0 - 1, 0>>).H
        H2 == hkl_holder_add_rotation(H1, g, 1, "mu", <<0, 0, 1>>).H
        H3 == hkl_geometry_add_holder(H2, g)
        H4 == hkl_holder_add_rotation(H3, g, 2, "pitch", <<0, 0 - 1, 0>>).H
        H5 == hkl_holder_add_rotation(H4, g, 2, "gamma", <<0, 0, 1>>).H
    IN  hkl_holder_add_rotation(H5, g, 2, "delta", <<0, 0 - 1, 0>>).H

\* a constructor that adds chi before phi
hkl_geometry_new_e4cvg2_chi_phi(H) ==
    LET g == NewId(DOMAIN H.geoms)
        H0 == hkl_geometry_add_holder(hkl_geometry_new(H), g)
        H1 == hkl_holder_add_rotation(H0, g, 1, "omega", <<0, 0 - 1, 0>>).H
        H2 == hkl_holder_add_rotation(H1, g, 1, "chi", <<0, 0 - 1, 0>>).H
        H3 == hkl_holder_add_rotation(H2, g, 1, "phi", <<1, 0, 0>>).H
        H4 == hkl_geometry_add_holder(H3, g)
        H5 == hkl_holder_add_rotation(H4, g, 2, "tth", <<0, 0 - 1, 0>>).H
    IN  hkl_holder_add_rotation(H5, g, 2, "gamma", <<0, 0, 1>>).H

hkl_geometry_new_e4cvg2(H) ==
    LET g == NewId(DOMAIN H.geoms)
        H0 == hkl_geometry_add_holder(hkl_geometry_new(H), g)
        H1 == hkl_holder_add_rotation(H0, g, 1, "omega", <<0, 0 - 1, 0>>).H
        H2 == hkl_holder_add_rotation(H1, g, 1, "phi", <<1, 0, 0>>).H
        H3 == hkl_holder_add_rotation(H2, g, 1, "chi", <<0, 0 - 1, 0>>).H
        H4 == hkl_geometry_add_holder(H3, g)
        H5 == hkl_holder_add_rotation(H4, g, 2, "tth", <<0, 0 - 1, 0>>).H
    IN  hkl_holder_add_rotation(H5, g, 2, "gamma", <<0, 0, 1>>).H

hkl_geometry_eulerian4CVG_axes == <<"omega", "chi", "phi", "tth", "gamma">>
hkl_geometry_e4cvg2_axes == <<"omega", "phi", "chi", "tth", "gamma">>
hkl_geometry_soleil_sixs_med_2_2_axes == <<"beta", "mu", "omega", "gamma", "delta">>
hkl_geometry_soleil_sixs_med_1_2_axes == <<"pitch", "mu", "gamma", "delta">>
hkl_geometry_soleil_sixs_med_2_3_axes ==
    <<"beta", "mu", "omega", "gamma", "delta", "eta_a">>
hkl_geometry_soleil_sixs_med_2_3_v2_axes == <<"mu", "omega", "gamma", "delta", "eta_a">>

\* the factories by name; axes is the canonical list of the factory
HklFactories ==
    [E4CVG |-> [name |-> "E4CVG", axes |-> hkl_geometry_eulerian4CVG_axes],
     E4CVG2 |-> [name |-> "E4CVG2", axes |-> hkl_geometry_e4cvg2_axes],
     SOLEIL_SIXS_MED2_2 |-> [name |-> "SOLEIL SIXS MED2+2",
                             axes |-> hkl_geometry_soleil_sixs_med_2_2_axes],
     SOLEIL_SIXS_MED1_2 |-> [name |-> "SOLEIL SIXS MED1+2",
                             axes |-> hkl_geometry_soleil_sixs_med_1_2_axes],
     SOLEIL_SIXS_MED2_3 |-> [name |-> "SOLEIL SIXS MED2+3",
                             axes |-> hkl_geometry_soleil_sixs_med_2_3_axes],
     SOLEIL_SIXS_MED2_3_v2 |-> [name |-> "SOLEIL SIXS MED2+3 v2",
                                axes |-> hkl_geometry_soleil_sixs_med_2_3_v2_axes]]

\* the geometry constructor of the factory
hkl_factory_create_new_geometry(H, factory) ==
    CASE factory.name = "E4CVG" -> hkl_geometry_new_eulerian4CVG(H)
      [] factory.name = "E4CVG2" -> hkl_geometry_new_e4cvg2(H)
      [] factory.name = "SOLEIL SIXS MED2+2" -> hkl_geometry_new_soleil_sixs_med_2_2(H)
      [] factory.name = "SOLEIL SIXS MED1+2" -> hkl_geometry_new_soleil_sixs_med_1_2(H)
      [] factory.name = "SOLEIL SIXS MED2+3" -> hkl_geometry_new_soleil_sixs_med_2_3(H)
      [] factory.name = "SOLEIL SIXS MED2+3 v2" ->
             hkl_geometry_new_soleil_sixs_med_2_3_v2(H)

hkl_geometry_axis_names_get(factory) == factory.axes

\* hkl_geometry_axis_values_get: the values of the axes, in the order of the
\* axes of the geometry
hkl_geometry_axis_values_get(H, g) ==
    [i \in 1..darray_size_axes(H, g) |->
        hkl_parameter_value_get(darray_item_axes(H, g, i - 1))]

\* the caller holds a geometry
HasGeometry == TheGeometry \in DOMAIN geoms

\* the values the caller sets: all the axes at 0 but one, at pi/2
FactoryValues(n) ==
    {[i \in 1..n |-> IF i = k THEN M_PI \div 2 ELSE 0] : k \in 0..n}

InitFactory ==
    /\ params = EmptyHeap.params
    /\ geoms = EmptyHeap.geoms
    /\ configs = EmptyHeap.configs
    /\ list = hkl_geometry_list_new
    /\ engine = NoEngine
    /\ hist = InitHist
    /\ last = [op |-> "none", args |-> << >>, ret |-> TRUE]

FactoryNew ==
    /\ ~HasGeometry
    /\ \E d \in DOMAIN HklFactories :
           /\ Store(hkl_factory_create_new_geometry(Heap, HklFactories[d]))
           /\ engine' = HklFactories[d]
           /\ last' = [op |-> "new", args |-> d, ret |-> TRUE]
    /\ UNCHANGED <<list, hist>>

FactoryFree ==
    /\ HasGeometry
    /\ Store(hkl_geometry_free(Heap, TheGeometry))
    /\ engine' = NoEngine
    /\ last' = [op |-> "free", args |-> << >>, ret |-> TRUE]
    /\ UNCHANGED <<list, hist>>

FactoryAxisValuesSet ==
    /\ HasGeometry
    /\ \E values \in FactoryValues(darray_size_axes(Heap, TheGeometry)) :
           LET r == hkl_geometry_axis_values_set(Heap, TheGeometry, values)
           IN  /\ Store(r.H)
               /\ last' = [op |-> "axis_values_set", args |-> values, ret |-> r.ret]
    /\ UNCHANGED <<list, engine, hist>>

FactoryAxisValuesGet ==
    /\ HasGeometry
    /\ last' = [op |-> "axis_values_get", args |-> << >>,
                ret |-> hkl_geometry_axis_values_get(Heap, TheGeometry)]
    /\ UNCHANGED <<params, geoms, configs, list, engine, hist>>

FactoryAxisNamesGet ==
    /\ HasGeometry
    /\ last' = [op |-> "axis_names_get", args |-> << >>,
                ret |-> hkl_geometry_axis_names_get(engine)]
    /\ UNCHANGED <<params, geoms, configs, list, engine, hist>>

\* the caller asks for the axis of each name of the canonical list
FactoryAxisGet ==
    /\ HasGeometry
    /\ \E i \in 1..Len(hkl_geometry_axis_names_get(engine)) :
           LET name == hkl_geometry_axis_names_get(engine)[i]
           IN  last' = [op |-> "axis_get", args |-> name,
                        ret |-> hkl_geometry_axis_get(Heap, TheGeometry, name).ret]
    /\ UNCHANGED <<params, geoms, configs, list, engine, hist>>

NextFactory ==
    \/ FactoryNew
    \/ FactoryFree
    \/ FactoryAxisValuesSet
    \/ FactoryAxisValuesGet
    \/ FactoryAxisNamesGet
    \/ FactoryAxisGet

SpecFactory == InitFactory /\ [][NextFactory]_vars

\* C28: for every diffractometer the canonical list of axis names of the
\* factory is, element by element, the list of the names of the axes of the
\* geometry its constructor builds (each name once, in the order of first
\* insertion); the value at position i of hkl_geometry_axis_values_get and
\* hkl_geometry_axis_values_set is the value of the axis named at position
\* i of hkl_geometry_axis_names_get
C28_CanonicalAxisOrder ==
    HasGeometry =>
        LET names == hkl_geometry_axis_names_get(engine)
            axis(i) == hkl_geometry_axis_get(Heap, TheGeometry, names[i]).ret
        IN  /\ Len(names) = darray_size_axes(Heap, TheGeometry)
            /\ \A i \in 1..Len(names) :
                   /\ darray_item_axes(Heap, TheGeometry, i - 1).name = names[i]
                   /\ axis(i) = i
                   /\ \A j \in 1..Len(names) : i # j => names[i] # names[j]
                   /\ last.op = "axis_values_set" /\ last.ret =>
                          darray_item_axes(Heap, TheGeometry, axis(i) - 1).value
                            = last.args[i]
                   /\ last.op = "axis_values_get" =>
                          darray_item_axes(Heap, TheGeometry, axis(i) - 1).value
                            = last.ret[i]

\* on SOLEIL SIXS MED 2+2, whose constructor adds beta twice, the fourth
\* value set went to gamma
C28_Witness ==
    /\ HasGeometry
    /\ engine.name = "SOLEIL SIXS MED2+2"
    /\ last.op = "axis_values_set"
    /\ last.ret
    /\ last.args[4] = M_PI \div 2
    /\ hkl_geometry_axis_names_get(engine)[4] = "gamma"
    /\ \E i \in 1..darray_size_axes(Heap, TheGeometry) :
           /\ darray_item_axes(Heap, TheGeometry, i - 1).name = "gamma"
           /\ darray_item_axes(Heap, TheGeometry, i - 1).value = M_PI \div 2

(***************************************************************************)
(* Copies of the list: the caller takes a copy of its list and frees the   *)
(* list it copied.                                                         *)
(***************************************************************************)
hkl_geometry_list_item_new_copy(H, item) == hkl_geometry_new_copy(H, item)

\* the items of self are copied one after the other to the tail of dup
RECURSIVE ListCopyLoop(_, _, _, _)
ListCopyLoop(H, dup, self, k) ==
    IF k > Len(self.items) THEN [H |-> H, L |-> dup]
    ELSE ListCopyLoop(hkl_geometry_list_item_new_copy(H, self.items[k]),
                      [dup EXCEPT !.items = Append(@, NewId(DOMAIN H.geoms))],
                      self, k + 1)

\* a copy that leaves n_items at 0
hkl_geometry_list_new_copy_nocount(H, self) ==
    ListCopyLoop(H, [items |-> << >>, n_items |-> 0, multiply |-> self.multiply],
                 self, 1)

\* the result is [H, L], L being the copy
hkl_geometry_list_new_copy(H, self) ==
    ListCopyLoop(H, [items |-> << >>, n_items |-> self.n_items,
                     multiply |-> self.multiply],
                 self, 1)

hkl_geometry_list_free(H, self) == hkl_geometry_list_reset(H, self).H

NewCopy ==
    LET r == hkl_geometry_list_new_copy(Heap, list)
    IN  /\ Store(hkl_geometry_list_free(r.H, list))
        /\ list' = r.L
        /\ hist' = [hist EXCEPT !.order = r.L.items]
        /\ last' = [op |-> "new_copy", ret |-> TRUE]
        /\ UNCHANGED engine

\* the positions the caller moves the diffractometer to
CountInputValues == {<<0, 0, o, 0, 0, 0>> : o \in {0, HKL_EPSILON}}

CountSetValues == SetValuesFrom(CountInputValues)

\* the list is the one of the engine list, the hook installed
InitCount ==
    /\ Init
    /\ list = hkl_engine_list_new_soleil_sixs_med_2_3

NextCount ==
    \/ CountSetValues
    \/ Add
    \/ MultiplyFromRange
    \/ Multiply
    \/ RemoveInvalid
    \/ Sort
    \/ Reset
    \/ NewCopy

SpecCount == InitCount /\ [][NextCount]_vars

\* n_items is the number of items linked in the list: the items a walk of
\* the list meets, each of them a live geometry met once
C29_Count ==
    /\ list.n_items = Len(list.items)
    /\ Len(Iterate(list)) = list.n_items
    /\ Cardinality(Range(list.items)) = list.n_items
    /\ Range(list.items) \subseteq DOMAIN geoms \ {TheGeometry}

\* a sort permutes the items and writes none of them
C29_Sort ==
    last'.op = "sort" =>
        /\ Len(list'.items) = Len(list.items)
        /\ Range(list'.items) = Range(list.items)
        /\ list'.n_items = list.n_items
        /\ HeapP = Heap

\* C29: after any sequence of hkl_geometry_list_new, _new_copy, _add,
\* _reset, _sort, _multiply, _multiply_from_range and _remove_invalid,
\* n_items is the number of items linked in the list, and
\* hkl_geometry_list_sort only permutes the items
C29_ItemCount == []C29_Count /\ [][C29_Sort]_vars

\* a sort has put an item before one that was linked earlier
C29_Witness ==
    /\ last.op = "sort"
    /\ list.n_items >= 2
    /\ Range(list.items) = Range(hist.order)
    /\ list.items # hist.order

(***************************************************************************)
(* The holder configurations and their users: geometries get holders, are  *)
(* copied (an item of a list is such a copy) and freed in any order.       *)
(***************************************************************************)
NextRef ==
    \/ OwnerAddHolder
    \/ OwnerNewCopy
    \/ OwnerFree

SpecRef == InitOwner /\ [][NextRef]_vars

\* the live holders that refer to the configuration c, as <<geometry, holder>>
HoldersOf(G, c) ==
    {gh \in UNION {{<<g, j>> : j \in 1..Len(G[g].holders)} : g \in DOMAIN G} :
        G[gh[1]].holders[gh[2]].config = c}

\* every configuration that is not freed counts its live holders and has
\* one at least; every live holder refers to one that is not freed
C30_Counted ==
    /\ \A c \in DOMAIN configs :
           /\ configs[c].gc = Cardinality(HoldersOf(geoms, c))
           /\ configs[c].gc >= 1
    /\ \A g \in DOMAIN geoms :
           \A j \in 1..Len(geoms[g].holders) :
               geoms[g].holders[j].config \in DOMAIN configs

\* a configuration is freed by the free of the geometry that holds the last
\* holders referring to it, and by nothing else
C30_Step ==
    \A c \in DOMAIN configs :
        c \notin DOMAIN configs' =>
            /\ last'.op = "free"
            /\ HoldersOf(geoms, c) # {}
            /\ \A gh \in HoldersOf(geoms, c) : gh[1] = last'.g

\* C30: after any interleaving of hkl_geometry_add_holder,
\* hkl_geometry_new_copy and hkl_geometry_free, the gc of every holder
\* configuration is the number of live holders that refer to it, a
\* configuration is freed once, when the last of them is freed, and no live
\* holder refers to a freed configuration
C30_ConfigRefcount == []C30_Counted /\ [][C30_Step]_vars

\* the source geometry was freed before its copy: the configuration its
\* holder made is left with the copy as its one user, and a configuration
\* made later has been freed with it
C30_Witness ==
    /\ last.op = "free"
    /\ last.g = TheGeometry
    /\ TheGeometry \notin DOMAIN geoms
    /\ NewId({}) \in DOMAIN configs
    /\ configs[NewId({})].gc = 1
    /\ \E c \in DOMAIN configs : NewId(DOMAIN configs) < c

====
